---- MODULE Spec2Model ----
(***************************************************************************)
(* Model of thermo/activity.py (mingtaoli/thermo): the K-value formulas,   *)
(* the flash inner-loop dispatcher and its solvers, the Raoult's-law       *)
(* flash, the dew/bubble pressure utilities, identify_phase,               *)
(* identify_phase_mixture, flash_wilson / flash_Tb_Tc_Pc and the           *)
(* get_T_bub_est / get_T_dew_est loops; and of the NRTL class of           *)
(* thermo/nrtl.py.                                                         *)
(*                                                                         *)
(* The functions of activity.py are stateless.  One call is modelled as    *)
(* two states: the arguments drawn in Init (pc = "call") and the outcome   *)
(* of the call (pc = "done"), which is either a returned value or a raised *)
(* exception; the functions that call themselves or loop run in between    *)
(* (pc = "run") on a stack of frames.                                      *)
(* Python floats are modelled as exact rationals [n, d]; None is the       *)
(* record None.  Results of the external root finders (fluids.numerics     *)
(* newton / brenth) are a nondeterministic choice.                         *)
(***************************************************************************)
EXTENDS Integers, Sequences, FiniteSets, TLC

\* fn, args: the function called and its arguments; pc: "call" before the
\* call and "done" after it; ret: the outcome of the call; method: the local
\* Method of flash_inner_loop once it has dispatched (NotCalled before);
\* inner: the outcome of the flash_inner_loop call made by flash; stack: the
\* frames of the calls in progress, the innermost last; heap: the list
\* objects alive, by address; objs: the NRTL instances alive; ncalls: the
\* number of methods called on them so far.
VARIABLES fn, args, ret, pc, method, inner, stack, heap, objs, ncalls

vars == <<fn, args, ret, pc, method, inner, stack, heap, objs, ncalls>>

(***************************************************************************)
(* Bounds of the model.                                                    *)
(***************************************************************************)
MaxNum == 2

(***************************************************************************)
(* Python values: numbers (exact rationals in lowest terms, d > 0), None,  *)
(* and the exception raised while evaluating an expression.                *)
(***************************************************************************)
None == [none |-> TRUE]

TypeErr == [exc |-> "TypeError"]

ZeroDiv == [exc |-> "ZeroDivisionError"]

IndexErr == [exc |-> "IndexError"]

IsNum(v) == "n" \in DOMAIN v

IsExc(v) == "exc" \in DOMAIN v

Abs(i) == IF i < 0 THEN -i ELSE i

RECURSIVE GCD(_, _)
GCD(a, b) == IF b = 0 THEN a ELSE GCD(b, a % b)

Rat(n, d) ==
    LET g == GCD(Abs(n), Abs(d))
        s == IF d < 0 THEN -1 ELSE 1
    IN  [n |-> (s * n) \div g, d |-> (s * d) \div g]

Int2Rat(i) == [n |-> i, d |-> 1]

\* The operations divide out common factors before they multiply, so that
\* intermediate products stay small.
RAdd(a, b) ==
    LET g == GCD(a.d, b.d)
    IN  Rat(a.n * (b.d \div g) + b.n * (a.d \div g), (a.d \div g) * b.d)

RSub(a, b) ==
    LET g == GCD(a.d, b.d)
    IN  Rat(a.n * (b.d \div g) - b.n * (a.d \div g), (a.d \div g) * b.d)

RMul(a, b) ==
    LET g1 == GCD(Abs(a.n), b.d)
        g2 == GCD(Abs(b.n), a.d)
    IN  Rat((a.n \div g1) * (b.n \div g2), (a.d \div g2) * (b.d \div g1))

\* b is not zero.
RDiv(a, b) ==
    LET g1 == GCD(Abs(a.n), Abs(b.n))
        g2 == GCD(a.d, b.d)
    IN  Rat((a.n \div g1) * (b.d \div g2), (a.d \div g2) * (b.n \div g1))

RLt(a, b) ==
    LET g == GCD(a.d, b.d)
    IN  a.n * (b.d \div g) < b.n * (a.d \div g)

RLe(a, b) ==
    LET g == GCD(a.d, b.d)
    IN  a.n * (b.d \div g) <= b.n * (a.d \div g)

Zero == Int2Rat(0)

One == Int2Rat(1)

\* Python's truth value of an optional number: None and 0 are false.
Truthy(v) == v # None /\ ~(IsNum(v) /\ v.n = 0)

\* a * b, a / b, a + b as Python evaluates them: the left operand
\* first, then the right one, then the operation (TypeError on None,
\* ZeroDivisionError on a zero divisor).
PyMul(a, b) ==
    IF IsExc(a) THEN a
    ELSE IF IsExc(b) THEN b
    ELSE IF a = None \/ b = None THEN TypeErr
    ELSE RMul(a, b)

PyDiv(a, b) ==
    IF IsExc(a) THEN a
    ELSE IF IsExc(b) THEN b
    ELSE IF a = None \/ b = None THEN TypeErr
    ELSE IF b.n = 0 THEN ZeroDiv
    ELSE RDiv(a, b)

PyAdd(a, b) ==
    IF IsExc(a) THEN a
    ELSE IF IsExc(b) THEN b
    ELSE IF a = None \/ b = None THEN TypeErr
    ELSE RAdd(a, b)

(***************************************************************************)
(* Outcomes of a call.                                                     *)
(***************************************************************************)
Return(v) == [tag |-> "return", val |-> v]

Raise(e, m) == [tag |-> "raise", exc |-> e, msg |-> m]

NoResult == [tag |-> "pending"]

NotCalled == "<not called>"

Raised(r) == r.tag = "raise"

\* An exception value escaping a function unhandled.
Propagate(v) == Raise(v.exc, "")

(***************************************************************************)
(* K_value                                                                 *)
(***************************************************************************)
K_value_msg == "Input must consist of one set from (P, Psat, phi_l, phi_g, gamma), (P, Psat, gamma), (phi_l, phi_g), (P, Psat)"

K_value_expr(P, Psat, phi_l, phi_g, gamma, Poynting) ==
    IF Truthy(gamma)
    THEN IF Truthy(phi_l)
         THEN PyDiv(PyMul(PyMul(PyMul(gamma, Psat), phi_l), Poynting),
                    PyMul(phi_g, P))
         ELSE PyDiv(PyMul(PyMul(gamma, Psat), Poynting), P)
    ELSE IF Truthy(phi_l)
         THEN PyDiv(phi_l, phi_g)
         ELSE PyDiv(Psat, P)

K_value(P, Psat, phi_l, phi_g, gamma, Poynting) ==
    LET v == K_value_expr(P, Psat, phi_l, phi_g, gamma, Poynting)
    IN  IF v = TypeErr THEN Raise("Exception", K_value_msg)
        ELSE IF IsExc(v) THEN Propagate(v)
        ELSE Return(v)

Nums == {Int2Rat(i) : i \in 0..MaxNum}

OptNums == Nums \cup {None}

K_value_args ==
    [P : OptNums, Psat : OptNums, phi_l : OptNums, phi_g : OptNums,
     gamma : OptNums, Poynting : Nums \ {Zero}]

InitK ==
    /\ fn = "K_value"
    /\ args \in K_value_args
    /\ ret = NoResult
    /\ pc = "call"
    /\ method = NotCalled
    /\ inner = NoResult
    /\ stack = <<>>
    /\ heap = <<>>
    /\ objs = <<>>
    /\ ncalls = 0

CallK_value ==
    /\ pc = "call"
    /\ fn = "K_value"
    /\ ret' = K_value(args.P, args.Psat, args.phi_l, args.phi_g, args.gamma,
                      args.Poynting)
    /\ pc' = "done"
    /\ UNCHANGED <<fn, args, method, inner, stack, heap, objs, ncalls>>

NextK == CallK_value

SpecK == InitK /\ [][NextK]_vars

(***************************************************************************)
(* Claims about K_value                                                    *)
(***************************************************************************)
Supplied(v) == v # None

\* The formula the documented priority rule selects over the supplied
\* inputs, evaluated on the inputs it names.
C1_Formula(a) ==
    IF Supplied(a.gamma) /\ Supplied(a.phi_l)
    THEN PyDiv(PyMul(PyMul(PyMul(a.gamma, a.Psat), a.phi_l), a.Poynting),
               PyMul(a.phi_g, a.P))
    ELSE IF Supplied(a.gamma)
    THEN PyDiv(PyMul(PyMul(a.gamma, a.Psat), a.Poynting), a.P)
    ELSE IF Supplied(a.phi_l)
    THEN PyDiv(a.phi_l, a.phi_g)
    ELSE PyDiv(a.Psat, a.P)

\* C1: K_value chooses its formula by priority over the SUPPLIED inputs
\* (gamma and phi_l; gamma only; phi_l only; neither), and the value it
\* returns is that formula's value, so that Poynting matters only in the two
\* gamma branches and inputs the formula does not name never matter.
C1_KValuePriorityBySupplied ==
    (pc = "done" /\ fn = "K_value" /\ IsNum(C1_Formula(args)))
        => ret = Return(C1_Formula(args))

\* The arguments the selected formula needs but the caller did not supply.
C2_CompanionMissing(a) ==
    IF Supplied(a.gamma) /\ Supplied(a.phi_l)
    THEN None \in {a.Psat, a.phi_g, a.P}
    ELSE IF Supplied(a.gamma)
    THEN None \in {a.Psat, a.P}
    ELSE IF Supplied(a.phi_l)
    THEN a.phi_g = None
    ELSE None \in {a.Psat, a.P}

\* C2: whenever the formula selected by the priority rule needs an argument
\* that was not supplied, K_value fails with the descriptive failure and
\* returns no value.
C2_KValueInvalidInput ==
    (pc = "done" /\ fn = "K_value" /\ C2_CompanionMissing(args))
        => ret = Raise("Exception", K_value_msg)

(***************************************************************************)
(* Lists of numbers                                                        *)
(***************************************************************************)
a \otimes b == RMul(a, b)

a \oplus b == RAdd(a, b)

a \ominus b == RSub(a, b)

\* A list comprehension stops at the first element whose evaluation raises.
HasExc(s) == \E i \in 1..Len(s) : IsExc(s[i])

FirstExc(s) ==
    s[CHOOSE i \in 1..Len(s) : IsExc(s[i]) /\ \A j \in 1..(i - 1) : ~IsExc(s[j])]

RECURSIVE PySum(_)
PySum(s) == IF s = <<>> THEN Zero ELSE PyAdd(PySum(SubSeq(s, 1, Len(s) - 1)), s[Len(s)])

\* sum([...]) of a list comprehension.
SumOf(s) == IF HasExc(s) THEN FirstExc(s) ELSE PySum(s)

PyMin(s) == CHOOSE m \in {s[i] : i \in 1..Len(s)} : \A i \in 1..Len(s) : RLe(m, s[i])

PyMax(s) == CHOOSE m \in {s[i] : i \in 1..Len(s)} : \A i \in 1..Len(s) : RLe(s[i], m)

\* list.index(v): the first position holding v.
PyIndex(s, v) == CHOOSE i \in 1..Len(s) : s[i] = v /\ \A j \in 1..(i - 1) : s[j] # v

\* The positions i of zs with zs[i] != 0.0, in order (from position i on).
RECURSIVE NonZeroIdx(_, _)
NonZeroIdx(zs, i) ==
    IF i > Len(zs) THEN <<>>
    ELSE IF zs[i] # Zero THEN <<i>> \o NonZeroIdx(zs, i + 1)
    ELSE NonZeroIdx(zs, i + 1)

(***************************************************************************)
(* External root finders (fluids.numerics newton, brenth): the root they   *)
(* return is any value of VFVals, or they raise.                           *)
(***************************************************************************)
MaxVF2 == 3

VFVals == {Rat(i, 2) : i \in (-1)..MaxVF2}

SolverFailure == Raise("ValueError", "f(a) and f(b) must have different signs")

Flash(V, xs, ys) == [tag |-> "return", V_over_F |-> V, xs |-> xs, ys |-> ys]

(***************************************************************************)
(* Rachford_Rice_solution                                                  *)
(***************************************************************************)
\* xs = [zi/(1.+V_over_F*(Ki-1.)) ...]; ys = [Ki*xi ...]; return
RR_xs(V, zs, Ks) ==
    [i \in 1..Len(zs) |-> PyDiv(zs[i], One \oplus (V \otimes (Ks[i] \ominus One)))]

RR_ys(xs, Ks) == [i \in 1..Len(xs) |-> PyMul(Ks[i], xs[i])]

RR_finish(V, zs, Ks) ==
    LET xs == RR_xs(V, zs, Ks)
    IN  IF HasExc(xs) THEN Propagate(FirstExc(xs)) ELSE Flash(V, xs, RR_ys(xs, Ks))

\* The initial bracket; its divisions raise when Kmin or Kmax is 1.
RR_V_over_F_min(zs, Ks) ==
    LET Kmin == PyMin(Ks)
        Kmax == PyMax(Ks)
        z_of_Kmax == zs[PyIndex(Ks, Kmax)]
    IN  PyDiv(((Kmax \ominus Kmin) \otimes z_of_Kmax) \ominus (One \ominus Kmin),
              (One \ominus Kmin) \otimes (Kmax \ominus One))

RR_V_over_F_max(Ks) == PyDiv(One, One \ominus PyMin(Ks))

Rachford_Rice_solution(zs, Ks, fprime, fprime2) ==
    IF Len(Ks) = 0
    THEN {Raise("ValueError", "min() arg is an empty sequence")}
    ELSE IF IsExc(RR_V_over_F_min(zs, Ks))
    THEN {Propagate(RR_V_over_F_min(zs, Ks))}
    ELSE IF IsExc(RR_V_over_F_max(Ks))
    THEN {Propagate(RR_V_over_F_max(Ks))}
    ELSE {RR_finish(V, zs, Ks) : V \in VFVals} \cup {SolverFailure}

(***************************************************************************)
(* Rachford_Rice_solution_numpy: array arithmetic does not raise on a zero *)
(* divisor, the element becomes inf or nan (NonFinite).                    *)
(***************************************************************************)
NonFinite == [nonfinite |-> TRUE]

NumpyDiv(a, b) == IF NonFinite \in {a, b} \/ b.n = 0 THEN NonFinite ELSE RDiv(a, b)

NumpyMul(a, b) == IF NonFinite \in {a, b} THEN NonFinite ELSE RMul(a, b)

Numpy_xs(V, zs, Ks) ==
    [i \in 1..Len(zs) |-> NumpyDiv(zs[i], One \oplus (V \otimes (Ks[i] \ominus One)))]

Numpy_ys(xs, Ks) == [i \in 1..Len(xs) |-> NumpyMul(Ks[i], xs[i])]

Rachford_Rice_solution_numpy(zs, Ks) ==
    IF Len(Ks) = 0
    THEN {Raise("ValueError", "zero-size array to reduction operation minimum which has no identity")}
    ELSE {Flash(V, Numpy_xs(V, zs, Ks), Numpy_ys(Numpy_xs(V, zs, Ks), Ks)) : V \in VFVals}
         \cup {SolverFailure}

(***************************************************************************)
(* Li_Johns_Ahmadi_solution                                                *)
(***************************************************************************)
\* sorted(zip(Ks, zs), reverse=True)[0]: the largest K, and among equal Ks
\* the largest z.
LJA_k1(Ks) == PyMax(Ks)

LJA_z1(zs, Ks) ==
    LET ties == {i \in 1..Len(Ks) : Ks[i] = PyMax(Ks)}
    IN  CHOOSE z \in {zs[i] : i \in ties} : \A i \in ties : RLe(zs[i], z)

LJA_kn(Ks) == PyMin(Ks)

LJA_x_min(zs, Ks) ==
    PyMul(PyDiv(One \ominus LJA_kn(Ks), LJA_k1(Ks) \ominus LJA_kn(Ks)), LJA_z1(zs, Ks))

LJA_t1(Ks) == PyDiv(LJA_k1(Ks) \ominus LJA_kn(Ks), LJA_kn(Ks) \ominus One)

\* V_over_F = (-x1 + z1)/(x1*(k1 - 1.))
LJA_V_over_F(x1, zs, Ks) ==
    PyDiv((Zero \ominus x1) \oplus LJA_z1(zs, Ks), x1 \otimes (LJA_k1(Ks) \ominus One))

\* x1 is the root returned by newton (kept when it passes the assertions) or
\* by brenth; a zero division in V_over_F after brenth is not caught.
Li_Johns_Ahmadi_solution(zs, Ks) ==
    IF Len(Ks) = 0
    THEN {Raise("IndexError", "list index out of range")}
    ELSE IF IsExc(LJA_x_min(zs, Ks))
    THEN {Propagate(LJA_x_min(zs, Ks))}
    ELSE IF IsExc(LJA_t1(Ks))
    THEN {Propagate(LJA_t1(Ks))}
    ELSE {IF IsExc(LJA_V_over_F(x1, zs, Ks))
          THEN Propagate(LJA_V_over_F(x1, zs, Ks))
          ELSE RR_finish(LJA_V_over_F(x1, zs, Ks), zs, Ks) : x1 \in VFVals}
         \cup {SolverFailure}

(***************************************************************************)
(* flash_inner_loop                                                        *)
(***************************************************************************)
FLASH_INNER_ANALYTICAL == "Analytical"

FLASH_INNER_SECANT == "Rachford-Rice (Secant)"

FLASH_INNER_NR == "Rachford-Rice (Newton-Raphson)"

FLASH_INNER_HALLEY == "Rachford-Rice (Halley)"

FLASH_INNER_NUMPY == "Rachford-Rice (NumPy)"

FLASH_INNER_LJA == "Li-Johns-Ahmadi"

\* Method=None (the default) is the string MethodNone, which is no method name.
MethodNone == "<None>"

\* Faulty variant: NumPy also offered after the Secant family at exactly 10 species.
list_methods_late_numpy_at_10(l, IS_PYPY) ==
    (IF l \in {2, 3} THEN <<FLASH_INNER_ANALYTICAL>> ELSE <<>>)
    \o (IF l >= 10 /\ ~IS_PYPY THEN <<FLASH_INNER_NUMPY>> ELSE <<>>)
    \o (IF l >= 2
        THEN <<FLASH_INNER_SECANT, FLASH_INNER_NR, FLASH_INNER_HALLEY>>
             \o (IF l <= 10 /\ ~IS_PYPY THEN <<FLASH_INNER_NUMPY>> ELSE <<>>)
        ELSE <<>>)
    \o (IF l >= 3 THEN <<FLASH_INNER_LJA>> ELSE <<>>)

flash_inner_loop_list_methods(l, IS_PYPY) ==
    (IF l \in {2, 3} THEN <<FLASH_INNER_ANALYTICAL>> ELSE <<>>)
    \o (IF l >= 10 /\ ~IS_PYPY THEN <<FLASH_INNER_NUMPY>> ELSE <<>>)
    \o (IF l >= 2
        THEN <<FLASH_INNER_SECANT, FLASH_INNER_NR, FLASH_INNER_HALLEY>>
             \o (IF l < 10 /\ ~IS_PYPY THEN <<FLASH_INNER_NUMPY>> ELSE <<>>)
        ELSE <<>>)
    \o (IF l >= 3 THEN <<FLASH_INNER_LJA>> ELSE <<>>)

\* Faulty variant: Analytical chosen below three species only.
AutoMethod_below_3(l, IS_PYPY) ==
    IF l < 3 THEN FLASH_INNER_ANALYTICAL
    ELSE IF ~IS_PYPY /\ l >= 10 THEN FLASH_INNER_NUMPY
    ELSE FLASH_INNER_SECANT

\* Method = ... if Method is None
AutoMethod(l, IS_PYPY) ==
    IF l < 4 THEN FLASH_INNER_ANALYTICAL
    ELSE IF ~IS_PYPY /\ l >= 10 THEN FLASH_INNER_NUMPY
    ELSE FLASH_INNER_SECANT

Analytical2_V_over_F(zs, Ks) ==
    LET z1 == zs[1]
        z2 == zs[2]
        K1 == Ks[1]
        K2 == Ks[2]
    IN  PyDiv(Zero \ominus K1 \otimes z1 \ominus K2 \otimes z2 \oplus z1 \oplus z2,
              K1 \otimes K2 \otimes z1 \oplus K1 \otimes K2 \otimes z2
              \ominus K1 \otimes z1 \ominus K1 \otimes z2
              \ominus K2 \otimes z1 \ominus K2 \otimes z2 \oplus z1 \oplus z2)

\* The denominator of the three-species closed form.
Analytical3_denominator(zs, Ks) ==
    LET z1 == zs[1]
        z2 == zs[2]
        z3 == zs[3]
        K1 == Ks[1]
        K2 == Ks[2]
        K3 == Ks[3]
    IN  K1 \otimes K2 \otimes K3 \otimes z1 \oplus K1 \otimes K2 \otimes K3 \otimes z2
        \oplus K1 \otimes K2 \otimes K3 \otimes z3
        \ominus K1 \otimes K2 \otimes z1 \ominus K1 \otimes K2 \otimes z2
        \ominus K1 \otimes K2 \otimes z3
        \ominus K1 \otimes K3 \otimes z1 \ominus K1 \otimes K3 \otimes z2
        \ominus K1 \otimes K3 \otimes z3
        \oplus K1 \otimes z1 \oplus K1 \otimes z2 \oplus K1 \otimes z3
        \ominus K2 \otimes K3 \otimes z1 \ominus K2 \otimes K3 \otimes z2
        \ominus K2 \otimes K3 \otimes z3
        \oplus K2 \otimes z1 \oplus K2 \otimes z2 \oplus K2 \otimes z3
        \oplus K3 \otimes z1 \oplus K3 \otimes z2 \oplus K3 \otimes z3
        \ominus z1 \ominus z2 \ominus z3

\* xs = [zi/(1.+V_over_F*(Ki-1.)) for zi, Ki in zip(zs, Ks) if zi != 0.0]
Analytical_xs(V, zs, Ks) ==
    LET idx == NonZeroIdx(zs, 1)
    IN  [j \in 1..Len(idx) |->
            PyDiv(zs[idx[j]], One \oplus (V \otimes (Ks[idx[j]] \ominus One)))]

\* ys = [Ki*xi for xi, Ki in zip(xs, Ks)]
Analytical_ys(xs, Ks) == [j \in 1..Len(xs) |-> PyMul(Ks[j], xs[j])]

Analytical_finish(V, zs, Ks) ==
    LET xs == Analytical_xs(V, zs, Ks)
    IN  IF HasExc(xs) THEN Propagate(FirstExc(xs)) ELSE Flash(V, xs, Analytical_ys(xs, Ks))

\* Faulty variant: the zero division of the two-species closed form is not
\* handled.
Analytical_no_fallback(zs, Ks) ==
    IF Len(zs) = 2
    THEN IF Analytical2_V_over_F(zs, Ks) = ZeroDiv
         THEN {Propagate(ZeroDiv)}
         ELSE {Analytical_finish(Analytical2_V_over_F(zs, Ks), zs, Ks)}
    ELSE IF Len(zs) = 3
    THEN IF Analytical3_denominator(zs, Ks) = Zero
         THEN {Propagate(ZeroDiv)}
         ELSE {Analytical_finish(V, zs, Ks) : V \in VFVals}
    ELSE {Raise("Exception", "Only solutions of one or two variables are available analytically")}

\* The three-species closed form takes a square root, which is not rational:
\* its value is any element of VFVals (its denominator is exact).
Analytical(zs, Ks) ==
    IF Len(zs) = 2
    THEN IF Analytical2_V_over_F(zs, Ks) = ZeroDiv
         THEN Rachford_Rice_solution(zs, Ks, FALSE, FALSE)
         ELSE {Analytical_finish(Analytical2_V_over_F(zs, Ks), zs, Ks)}
    ELSE IF Len(zs) = 3
    THEN IF Analytical3_denominator(zs, Ks) = Zero
         THEN {Propagate(ZeroDiv)}
         ELSE {Analytical_finish(V, zs, Ks) : V \in VFVals}
    ELSE {Raise("Exception", "Only solutions of one or two variables are available analytically")}

ReturnMethods(m) == [tag |-> "return", methods |-> m]

\* Faulty variant: an unrecognised Method falls back to the Secant solver.
Dispatch_default_secant(zs, Ks, Method) ==
    IF Method = FLASH_INNER_ANALYTICAL THEN Analytical(zs, Ks)
    ELSE IF Method = FLASH_INNER_NUMPY THEN Rachford_Rice_solution_numpy(zs, Ks)
    ELSE IF Method = FLASH_INNER_NR THEN Rachford_Rice_solution(zs, Ks, TRUE, FALSE)
    ELSE IF Method = FLASH_INNER_HALLEY THEN Rachford_Rice_solution(zs, Ks, TRUE, TRUE)
    ELSE IF Method = FLASH_INNER_LJA THEN Li_Johns_Ahmadi_solution(zs, Ks)
    ELSE Rachford_Rice_solution(zs, Ks, FALSE, FALSE)

Dispatch(zs, Ks, Method) ==
    IF Method = FLASH_INNER_SECANT THEN Rachford_Rice_solution(zs, Ks, FALSE, FALSE)
    ELSE IF Method = FLASH_INNER_ANALYTICAL THEN Analytical(zs, Ks)
    ELSE IF Method = FLASH_INNER_NUMPY THEN Rachford_Rice_solution_numpy(zs, Ks)
    ELSE IF Method = FLASH_INNER_NR THEN Rachford_Rice_solution(zs, Ks, TRUE, FALSE)
    ELSE IF Method = FLASH_INNER_HALLEY THEN Rachford_Rice_solution(zs, Ks, TRUE, TRUE)
    ELSE IF Method = FLASH_INNER_LJA THEN Li_Johns_Ahmadi_solution(zs, Ks)
    ELSE {Raise("Exception", "Incorrect Method input")}

\* The value of the local Method when the dispatch is reached.
SelectedMethod(l, Method, IS_PYPY) ==
    IF Method = MethodNone THEN AutoMethod(l, IS_PYPY) ELSE Method

\* The set of outcomes of flash_inner_loop(zs, Ks, AvailableMethods, Method).
flash_inner_loop(zs, Ks, AvailableMethods, Method, IS_PYPY) ==
    IF AvailableMethods
    THEN {ReturnMethods(flash_inner_loop_list_methods(Len(zs), IS_PYPY))}
    ELSE Dispatch(zs, Ks, SelectedMethod(Len(zs), Method, IS_PYPY))

(***************************************************************************)
(* Calls of flash_inner_loop                                               *)
(***************************************************************************)
ZDen == 2

MaxN == 10

\* Mole fractions 0, 1/ZDen, .., 1 and K-values below, at and above 1.
ZVals == {Rat(i, ZDen) : i \in 0..ZDen}

KVals == {Rat(1, 2), One, Int2Rat(2)}

\* Lists of length n: every list over Vals up to three species, and the
\* lists with one value in front and another behind it for more species.
Lists(n, Vals) ==
    IF n <= 3 THEN [1..n -> Vals]
    ELSE {[i \in 1..n |-> IF i = 1 THEN a ELSE b] : a \in Vals, b \in Vals}

MethodNames ==
    {FLASH_INNER_ANALYTICAL, FLASH_INNER_SECANT, FLASH_INNER_NR,
     FLASH_INNER_HALLEY, FLASH_INNER_NUMPY, FLASH_INNER_LJA}

Methods == MethodNames \cup {MethodNone, "Bogus"}

InitInner ==
    /\ fn = "flash_inner_loop"
    /\ \E n \in 0..MaxN :
          args \in [zs : Lists(n, ZVals), Ks : Lists(n, KVals),
                    AvailableMethods : BOOLEAN, Method : Methods,
                    IS_PYPY : BOOLEAN]
    /\ ret = NoResult
    /\ pc = "call"
    /\ method = NotCalled
    /\ inner = NoResult
    /\ stack = <<>>
    /\ heap = <<>>
    /\ objs = <<>>
    /\ ncalls = 0

Callflash_inner_loop ==
    /\ pc = "call"
    /\ fn = "flash_inner_loop"
    /\ ret' \in flash_inner_loop(args.zs, args.Ks, args.AvailableMethods,
                                 args.Method, args.IS_PYPY)
    /\ method' = IF args.AvailableMethods THEN NotCalled
                  ELSE SelectedMethod(Len(args.zs), args.Method, args.IS_PYPY)
    /\ pc' = "done"
    /\ UNCHANGED <<fn, args, inner, stack, heap, objs, ncalls>>

NextInner == Callflash_inner_loop

SpecInner == InitInner /\ [][NextInner]_vars

(***************************************************************************)
(* Claims about flash_inner_loop                                           *)
(***************************************************************************)
InnerDone == pc = "done" /\ fn = "flash_inner_loop"

Solved == InnerDone /\ ~args.AvailableMethods /\ ret.tag = "return"

\* K * x, where x may be an inf/nan element of an array result.
C3_Times(K, x) == IF x = NonFinite THEN NonFinite ELSE RMul(K, x)

\* C3: for every method and every zs, Ks of equal length N, the returned xs
\* and ys have exactly N entries, in the caller's species order, and
\* ys[i] = Ks[i]*xs[i] for every species i, also when some zs[i] is 0.
C3_YsEqualKsTimesXs ==
    Solved =>
        /\ Len(ret.xs) = Len(args.zs)
        /\ Len(ret.ys) = Len(args.zs)
        /\ \A i \in 1..Len(args.zs) : ret.ys[i] = C3_Times(args.Ks[i], ret.xs[i])

\* C4: with Method not given, the method is chosen by the species count N:
\* Analytical when N <= 3; otherwise NumPy when N >= 10 and the vectorized
\* backend is available; otherwise Secant.
C4_AutomaticSelection ==
    (InnerDone /\ ~args.AvailableMethods /\ args.Method = MethodNone) =>
        method = IF Len(args.zs) <= 3 THEN "Analytical"
                 ELSE IF Len(args.zs) >= 10 /\ ~args.IS_PYPY
                      THEN "Rachford-Rice (NumPy)"
                      ELSE "Rachford-Rice (Secant)"

C4_Witness ==
    /\ InnerDone /\ ~args.AvailableMethods /\ args.Method = MethodNone
    /\ Len(args.zs) = 10 /\ ~args.IS_PYPY
    /\ method = FLASH_INNER_NUMPY
    /\ ret.tag = "return"

Elems(s) == {s[i] : i \in 1..Len(s)}

\* C5: with Method not given and N >= 1, the automatically selected method
\* is one AvailableMethods=True reports for that N, and the call never fails
\* with the Analytical-species-count or the incorrect-Method failure.
C5_AutomaticMethodIsAvailable ==
    (InnerDone /\ ~args.AvailableMethods /\ args.Method = MethodNone
        /\ Len(args.zs) >= 1) =>
        /\ method \in Elems(flash_inner_loop_list_methods(Len(args.zs), args.IS_PYPY))
        /\ ret # Raise("Exception", "Only solutions of one or two variables are available analytically")
        /\ ret # Raise("Exception", "Incorrect Method input")

Pos(s, v) == CHOOSE i \in 1..Len(s) : s[i] = v

\* C6: the AvailableMethods=True list has no duplicates; it holds Analytical
\* iff N is 2 or 3; Secant, Newton-Raphson and Halley iff N >= 2; NumPy iff
\* the backend is present and N >= 2, before the Secant family when N >= 10
\* and after it when 2 <= N <= 9; Li-Johns-Ahmadi iff N >= 3; it is empty
\* for N < 2.
C6_AvailableMethodsList ==
    (InnerDone /\ args.AvailableMethods) =>
        LET m == ret.methods
            N == Len(args.zs)
            family == {"Rachford-Rice (Secant)", "Rachford-Rice (Newton-Raphson)",
                       "Rachford-Rice (Halley)"}
        IN  /\ ret.tag = "return"
            /\ \A i, j \in 1..Len(m) : m[i] = m[j] => i = j
            /\ Elems(m) \subseteq MethodNames
            /\ "Analytical" \in Elems(m) <=> N \in {2, 3}
            /\ \A f \in family : f \in Elems(m) <=> N >= 2
            /\ "Rachford-Rice (NumPy)" \in Elems(m) <=> (~args.IS_PYPY /\ N >= 2)
            /\ "Rachford-Rice (NumPy)" \in Elems(m) =>
                  \A f \in family :
                      IF N >= 10
                      THEN Pos(m, "Rachford-Rice (NumPy)") < Pos(m, f)
                      ELSE Pos(m, "Rachford-Rice (NumPy)") > Pos(m, f)
            /\ "Li-Johns-Ahmadi" \in Elems(m) <=> N >= 3
            /\ N < 2 => m = <<>>

C6_Witness ==
    /\ InnerDone /\ args.AvailableMethods
    /\ Len(args.zs) = 10 /\ ~args.IS_PYPY
    /\ ret.methods[1] = FLASH_INNER_NUMPY
    /\ Len(ret.methods) = 5

\* C7: a solving call (AvailableMethods not set) fails with the
\* incorrect-Method failure exactly when a given Method is none of the six
\* names, and with the Analytical-species-count failure exactly when the
\* Analytical method is used with a species count other than 2 or 3; in both
\* cases no result tuple is returned.
C7_MethodFailures ==
    (InnerDone /\ ~args.AvailableMethods) =>
        /\ ret = Raise("Exception", "Incorrect Method input")
              <=> (args.Method # MethodNone /\ args.Method \notin MethodNames)
        /\ ret = Raise("Exception", "Only solutions of one or two variables are available analytically")
              <=> (method = "Analytical" /\ Len(args.zs) \notin {2, 3})
        /\ (args.Method # MethodNone /\ args.Method \notin MethodNames) => ret.tag = "raise"
        /\ (method = "Analytical" /\ Len(args.zs) \notin {2, 3}) => ret.tag = "raise"

C7_Witness ==
    /\ InnerDone /\ ~args.AvailableMethods
    /\ args.Method = "Bogus"
    /\ ret = Raise("Exception", "Incorrect Method input")

\* The Analytical method ran with two species and the denominator of its
\* closed form was zero.
C25_ZeroDenominator ==
    /\ InnerDone /\ ~args.AvailableMethods
    /\ method = FLASH_INNER_ANALYTICAL /\ Len(args.zs) = 2
    /\ Analytical2_V_over_F(args.zs, args.Ks) = ZeroDiv

C25_WitnessFailure ==
    /\ C25_ZeroDenominator
    /\ args.Ks[1] = One /\ args.zs = <<Rat(1, 2), Rat(1, 2)>>
    /\ ret = Propagate(ZeroDiv)

(***************************************************************************)
(* thermo.utils.none_and_length_check: every input is a list without None  *)
(* entries, of the length of the first one.  An absent (None) input raises *)
(* a TypeError when its length or its entries are looked at.               *)
(***************************************************************************)
SomeList(s) == [list |-> s]

NoneIn(s) == \E i \in 1..Len(s) : s[i] = None

\* The loop body's test on input i: None in things or len(things) != length.
CheckFails(all_inputs, i) ==
    NoneIn(all_inputs[i].list) \/ Len(all_inputs[i].list) # Len(all_inputs[1].list)

Stops(all_inputs, i) == all_inputs[i] = None \/ CheckFails(all_inputs, i)

\* The call raises: the first input is None, or the loop reaches a None
\* input before it has returned False.
none_and_length_check_raises(all_inputs) ==
    \/ all_inputs[1] = None
    \/ \E i \in 1..Len(all_inputs) :
          /\ all_inputs[i] = None
          /\ \A j \in 1..(i - 1) : ~Stops(all_inputs, j)

none_and_length_check(all_inputs) ==
    \A i \in 1..Len(all_inputs) : ~Stops(all_inputs, i)

InconsistentInput ==
    Raise("Exception", "Input dimentions are inconsistent or some input parameters are missing.")

(***************************************************************************)
(* flash                                                                   *)
(***************************************************************************)
\* Ks = [K_value(P=P, Psat=Psats[i]) for i in range(len(zs))]
flash_Ks(P, zs, Psats) ==
    [i \in 1..Len(zs) |-> K_value(P, Psats[i], None, None, None, One)]

KsRaise(Ks) == Ks[CHOOSE i \in 1..Len(Ks) : Raised(Ks[i]) /\ \A j \in 1..(i - 1) : ~Raised(Ks[j])]

KsValues(Ks) == [i \in 1..Len(Ks) |-> Ks[i].val]

\* Faulty variant: only the first feasibility sum is tested.
valid_range_first_sum_only(zs, Ks) ==
    IF IsExc(SumOf([i \in 1..Len(Ks) |-> PyMul(zs[i], Ks[i])]))
    THEN SumOf([i \in 1..Len(Ks) |-> PyMul(zs[i], Ks[i])])
    ELSE IF IsExc(SumOf([i \in 1..Len(Ks) |-> PyDiv(zs[i], Ks[i])]))
    THEN SumOf([i \in 1..Len(Ks) |-> PyDiv(zs[i], Ks[i])])
    ELSE [valid |-> ~RLt(SumOf([i \in 1..Len(Ks) |-> PyMul(zs[i], Ks[i])]), One)]

\* valid_range(zs, Ks): [valid |-> ..], or the exception a sum raises.
valid_range(zs, Ks) ==
    IF IsExc(SumOf([i \in 1..Len(Ks) |-> PyMul(zs[i], Ks[i])]))
    THEN SumOf([i \in 1..Len(Ks) |-> PyMul(zs[i], Ks[i])])
    ELSE IF IsExc(SumOf([i \in 1..Len(Ks) |-> PyDiv(zs[i], Ks[i])]))
    THEN SumOf([i \in 1..Len(Ks) |-> PyDiv(zs[i], Ks[i])])
    ELSE [valid |-> /\ ~RLt(SumOf([i \in 1..Len(Ks) |-> PyMul(zs[i], Ks[i])]), One)
                    /\ ~RLt(SumOf([i \in 1..Len(Ks) |-> PyDiv(zs[i], Ks[i])]), One)]

\* The part of flash before the inner loop: the failure it raises, or
\* NoResult when the inner loop is reached.
flash_before_inner_loop(P, zs, Psats) ==
    IF ~none_and_length_check(<<SomeList(zs), SomeList(Psats)>>)
    THEN InconsistentInput
    ELSE IF \E i \in 1..Len(zs) : Raised(flash_Ks(P, zs, Psats)[i])
    THEN KsRaise(flash_Ks(P, zs, Psats))
    ELSE IF IsExc(valid_range(zs, KsValues(flash_Ks(P, zs, Psats))))
    THEN Propagate(valid_range(zs, KsValues(flash_Ks(P, zs, Psats))))
    ELSE IF ~valid_range(zs, KsValues(flash_Ks(P, zs, Psats))).valid
    THEN Raise("Exception", "Solution does not exist")
    ELSE NoResult

\* The part of flash after the inner loop, r being its outcome.
flash_after_inner_loop(r) ==
    IF Raised(r) THEN r
    ELSE IF RLt(r.V_over_F, Zero) THEN Raise("Exception", "V_over_F is negative!")
    ELSE Flash(r.V_over_F, r.xs, r.ys)

MaxPsat == 3

MaxNFlash == 4

PsatVals == {Int2Rat(i) : i \in 0..MaxPsat}

InitFlash ==
    /\ fn = "flash"
    /\ \E n \in 1..MaxNFlash :
          args \in [P : PsatVals \cup {None}, zs : Lists(n, ZVals),
                    Psats : Lists(n, PsatVals)
                            \cup (IF n = 1 THEN Lists(2, PsatVals) ELSE {}),
                    IS_PYPY : BOOLEAN]
    /\ ret = NoResult
    /\ pc = "call"
    /\ method = NotCalled
    /\ inner = NoResult
    /\ stack = <<>>
    /\ heap = <<>>
    /\ objs = <<>>
    /\ ncalls = 0

Callflash ==
    /\ pc = "call"
    /\ fn = "flash"
    /\ IF flash_before_inner_loop(args.P, args.zs, args.Psats) # NoResult
       THEN /\ ret' = flash_before_inner_loop(args.P, args.zs, args.Psats)
            /\ UNCHANGED <<method, inner, heap, objs, ncalls>>
       ELSE /\ inner' \in flash_inner_loop(args.zs,
                              KsValues(flash_Ks(args.P, args.zs, args.Psats)),
                              FALSE, MethodNone, args.IS_PYPY)
            /\ method' = SelectedMethod(Len(args.zs), MethodNone, args.IS_PYPY)
            /\ ret' = flash_after_inner_loop(inner')
    /\ pc' = "done"
    /\ UNCHANGED <<fn, args, stack, heap, objs, ncalls>>

NextFlash == Callflash

SpecFlash == InitFlash /\ [][NextFlash]_vars

(***************************************************************************)
(* Claims about flash                                                      *)
(***************************************************************************)
FlashDone == pc = "done" /\ fn = "flash"

\* Ks[i] = Psats[i]/P and the two feasibility sums, where they are defined.
C8_SumsDefined ==
    /\ Len(args.Psats) = Len(args.zs)
    /\ args.P # None /\ args.P # Zero
    /\ \A i \in 1..Len(args.zs) : args.Psats[i] # Zero

C8_SumZK == PySum([i \in 1..Len(args.zs) |-> RMul(args.zs[i], RDiv(args.Psats[i], args.P))])

C8_SumZoverK == PySum([i \in 1..Len(args.zs) |-> RDiv(args.zs[i], RDiv(args.Psats[i], args.P))])

C8_WitnessInfeasible ==
    /\ FlashDone /\ C8_SumsDefined
    /\ ~RLt(C8_SumZK, One) /\ RLt(C8_SumZoverK, One)

(***************************************************************************)
(* dew_at_T and bubble_at_T.  An argument is None or SomeList(list); the   *)
(* entries of a list are numbers or None.                                  *)
(***************************************************************************)
\* l[i]: a TypeError on None, an IndexError past the end.
Item(l, i) ==
    IF l = None THEN TypeErr
    ELSE IF i > Len(l.list) THEN IndexErr
    ELSE l.list[i]

\* The overload taken: which of fugacities and gammas is not None.
Overload(fugacities, gammas) ==
    IF fugacities = None /\ gammas = None THEN 1
    ELSE IF gammas # None /\ fugacities = None THEN 2
    ELSE IF fugacities # None /\ gammas = None THEN 3
    ELSE 4

\* The inputs handed to none_and_length_check by the handler of each overload.
Checked(zs, Psats, fugacities, gammas) ==
    IF Overload(fugacities, gammas) = 1 THEN <<Psats>>
    ELSE IF Overload(fugacities, gammas) = 2 THEN <<Psats, gammas>>
    ELSE IF Overload(fugacities, gammas) = 3 THEN <<Psats, fugacities>>
    ELSE <<zs, Psats, fugacities, gammas>>

dew_term(zs, Psats, fugacities, gammas, i) ==
    IF Overload(fugacities, gammas) = 1
    THEN PyDiv(Item(zs, i), Item(Psats, i))
    ELSE IF Overload(fugacities, gammas) = 2
    THEN PyDiv(Item(zs, i), PyMul(Item(Psats, i), Item(gammas, i)))
    ELSE IF Overload(fugacities, gammas) = 3
    THEN PyDiv(PyMul(Item(zs, i), Item(fugacities, i)), Item(Psats, i))
    ELSE PyDiv(PyMul(Item(zs, i), Item(fugacities, i)),
               PyMul(Item(Psats, i), Item(gammas, i)))

\* 1.0/sum([... for i in range(len(zs))]): a number or the exception raised.
dew_pressure(zs, Psats, fugacities, gammas) ==
    IF zs = None THEN TypeErr
    ELSE PyDiv(One, SumOf([i \in 1..Len(zs.list) |->
                              dew_term(zs, Psats, fugacities, gammas, i)]))

\* The except clause with `raise e` at its end.
HandlerRaising(e, checked) ==
    IF none_and_length_check_raises(checked) THEN Propagate(TypeErr)
    ELSE IF ~none_and_length_check(checked) THEN InconsistentInput
    ELSE Propagate(e)

\* The four overloads cover every case, so the function's last statement
\* (return ValueError) is never reached.
dew_at_T(zs, Psats, fugacities, gammas) ==
    IF IsExc(dew_pressure(zs, Psats, fugacities, gammas))
    THEN HandlerRaising(dew_pressure(zs, Psats, fugacities, gammas),
                        Checked(zs, Psats, fugacities, gammas))
    ELSE Return(dew_pressure(zs, Psats, fugacities, gammas))

bubble_term(zs, Psats, fugacities, gammas, i) ==
    IF Overload(fugacities, gammas) = 1
    THEN PyMul(Item(zs, i), Item(Psats, i))
    ELSE IF Overload(fugacities, gammas) = 2
    THEN PyMul(PyMul(Item(zs, i), Item(Psats, i)), Item(gammas, i))
    ELSE IF Overload(fugacities, gammas) = 3
    THEN PyDiv(PyMul(Item(zs, i), Item(Psats, i)), Item(fugacities, i))
    ELSE PyDiv(PyMul(PyMul(Item(zs, i), Item(Psats, i)), Item(gammas, i)),
               Item(fugacities, i))

bubble_pressure(zs, Psats, fugacities, gammas) ==
    SumOf([i \in 1..Len(zs.list) |-> bubble_term(zs, Psats, fugacities, gammas, i)])

\* The exception object handed back by `return e`.
ReturnException(e) == [tag |-> "return", exception |-> e.exc]

\* The except clause with `return e` at its end.
HandlerReturning(e, checked) ==
    IF none_and_length_check_raises(checked) THEN Propagate(TypeErr)
    ELSE IF ~none_and_length_check(checked) THEN InconsistentInput
    ELSE ReturnException(e)

bubble_at_T(zs, Psats, fugacities, gammas) ==
    IF zs = None THEN Propagate(TypeErr)
    ELSE IF ~IsExc(bubble_pressure(zs, Psats, fugacities, gammas))
    THEN Return(bubble_pressure(zs, Psats, fugacities, gammas))
    ELSE IF Overload(fugacities, gammas) \in {1, 2}
    THEN HandlerRaising(bubble_pressure(zs, Psats, fugacities, gammas),
                        Checked(zs, Psats, fugacities, gammas))
    ELSE HandlerReturning(bubble_pressure(zs, Psats, fugacities, gammas),
                          Checked(zs, Psats, fugacities, gammas))

MaxLen == 2

\* Lists of ones of length 0..MaxLen, possibly with a 0 or a None in front.
ArgLists ==
    {SomeList([i \in 1..n |-> One]) : n \in 0..MaxLen}
    \cup {SomeList([i \in 1..n |-> IF i = 1 THEN d ELSE One]) :
             n \in 1..MaxLen, d \in {Zero, None}}

OptLists == ArgLists \cup {None}

InitDewBubble ==
    /\ fn \in {"dew_at_T", "bubble_at_T"}
    /\ args \in [zs : OptLists, Psats : OptLists, fugacities : OptLists,
                 gammas : OptLists]
    /\ ret = NoResult
    /\ pc = "call"
    /\ method = NotCalled
    /\ inner = NoResult
    /\ stack = <<>>
    /\ heap = <<>>
    /\ objs = <<>>
    /\ ncalls = 0

Calldew_at_T ==
    /\ pc = "call"
    /\ fn = "dew_at_T"
    /\ ret' = dew_at_T(args.zs, args.Psats, args.fugacities, args.gammas)
    /\ pc' = "done"
    /\ UNCHANGED <<fn, args, method, inner, stack, heap, objs, ncalls>>

Callbubble_at_T ==
    /\ pc = "call"
    /\ fn = "bubble_at_T"
    /\ ret' = bubble_at_T(args.zs, args.Psats, args.fugacities, args.gammas)
    /\ pc' = "done"
    /\ UNCHANGED <<fn, args, method, inner, stack, heap, objs, ncalls>>

NextDewBubble == Calldew_at_T \/ Callbubble_at_T

SpecDewBubble == InitDewBubble /\ [][NextDewBubble]_vars

(***************************************************************************)
(* Claims about dew_at_T and bubble_at_T                                   *)
(***************************************************************************)
DewBubbleDone == pc = "done" /\ fn \in {"dew_at_T", "bubble_at_T"}

C9_SuppliedArrays == {args.zs, args.Psats, args.fugacities, args.gammas} \ {None}

\* The lengths of zs, Psats and the supplied optional arrays are not all
\* equal, or a required array (zs, Psats) is absent.
C9_Inconsistent ==
    \/ args.zs = None
    \/ args.Psats = None
    \/ \E a, b \in C9_SuppliedArrays : Len(a.list) # Len(b.list)

\* C9: in all four overloads of dew_at_T and of bubble_at_T, whenever the
\* lengths of zs, Psats and the supplied optional arrays are not all equal,
\* or a required array is absent, the call fails with the inconsistent-input
\* failure and never returns a pressure.
C9_InconsistentArraysFail ==
    (DewBubbleDone /\ C9_Inconsistent) => ret = InconsistentInput

\* The evaluation of the pressure sum raised an exception.
C24_PressureSumFailed ==
    IF fn = "dew_at_T"
    THEN IsExc(dew_pressure(args.zs, args.Psats, args.fugacities, args.gammas))
    ELSE /\ args.zs # None
         /\ IsExc(bubble_pressure(args.zs, args.Psats, args.fugacities, args.gammas))

\* C24: in all four overloads of dew_at_T and of bubble_at_T, a call whose
\* pressure sum raised an exception ends with a raised failure, and no call
\* returns an exception in place of a pressure.
C24_FailuresAreRaised ==
    DewBubbleDone =>
        /\ "exception" \notin DOMAIN ret
        /\ C24_PressureSumFailed => Raised(ret)

(***************************************************************************)
(* identify_phase.  The phase returned is "s", "l", "g" or PhaseNone       *)
(* (Python's None).                                                        *)
(***************************************************************************)
PhaseNone == "<None>"

ReturnPhase(p) == [tag |-> "return", phase |-> p]

P_LOW == 90000

P_HIGH == 110000

\* Faulty variant: the vapor-pressure rule is consulted before the critical
\* temperature.
identify_phase_Psat_before_Tc(T, P, Tm, Tb, Tc, Psat) ==
    IF Truthy(Tm) /\ RLe(T, Tm) THEN ReturnPhase("s")
    ELSE IF Truthy(Psat)
    THEN IF RLe(P, Psat) THEN ReturnPhase("g")
         ELSE IF RLt(Psat, P) THEN ReturnPhase("l")
         ELSE ReturnPhase(PhaseNone)
    ELSE IF Truthy(Tc) /\ RLe(Tc, T) THEN ReturnPhase("g")
    ELSE IF Truthy(Tb)
    THEN IF RLt(Int2Rat(P_LOW), P) /\ RLt(P, Int2Rat(P_HIGH))
         THEN IF RLt(T, Tb) THEN ReturnPhase("l") ELSE ReturnPhase("g")
         ELSE IF RLt(Int2Rat(P_HIGH), P) /\ RLe(T, Tb) THEN ReturnPhase("l")
         ELSE ReturnPhase(PhaseNone)
    ELSE ReturnPhase(PhaseNone)

identify_phase(T, P, Tm, Tb, Tc, Psat) ==
    IF Truthy(Tm) /\ RLe(T, Tm) THEN ReturnPhase("s")
    ELSE IF Truthy(Tc) /\ RLe(Tc, T) THEN ReturnPhase("g")
    ELSE IF Truthy(Psat)
    THEN IF RLe(P, Psat) THEN ReturnPhase("g")
         ELSE IF RLt(Psat, P) THEN ReturnPhase("l")
         ELSE ReturnPhase(PhaseNone)
    ELSE IF Truthy(Tb)
    THEN IF RLt(Int2Rat(P_LOW), P) /\ RLt(P, Int2Rat(P_HIGH))
         THEN IF RLt(T, Tb) THEN ReturnPhase("l") ELSE ReturnPhase("g")
         ELSE IF RLt(Int2Rat(P_HIGH), P) /\ RLe(T, Tb) THEN ReturnPhase("l")
         ELSE ReturnPhase(PhaseNone)
    ELSE ReturnPhase(PhaseNone)

MaxT == 2

TVals == {Int2Rat(i) : i \in 0..MaxT}

\* Pressures below, at, between, at and above the two limits of the Tb rule.
PVals == {Int2Rat(p) : p \in {0, P_LOW, 100000, P_HIGH, 120000}}

InitPhase ==
    /\ fn = "identify_phase"
    /\ args \in [T : TVals, P : PVals, Tm : TVals \cup {None},
                 Tb : TVals \cup {None}, Tc : TVals \cup {None},
                 Psat : PVals \cup {None}]
    /\ ret = NoResult
    /\ pc = "call"
    /\ method = NotCalled
    /\ inner = NoResult
    /\ stack = <<>>
    /\ heap = <<>>
    /\ objs = <<>>
    /\ ncalls = 0

Callidentify_phase ==
    /\ pc = "call"
    /\ fn = "identify_phase"
    /\ ret' = identify_phase(args.T, args.P, args.Tm, args.Tb, args.Tc, args.Psat)
    /\ pc' = "done"
    /\ UNCHANGED <<fn, args, method, inner, stack, heap, objs, ncalls>>

NextPhase == Callidentify_phase

SpecPhase == InitPhase /\ [][NextPhase]_vars

(***************************************************************************)
(* Claims about identify_phase                                             *)
(***************************************************************************)
PhaseDone == pc = "done" /\ fn = "identify_phase"

Known(v) == v # None

\* The phase the priority rules give over the KNOWN inputs.
C10_Phase(a) ==
    IF Known(a.Tm) /\ RLe(a.T, a.Tm) THEN "s"
    ELSE IF Known(a.Tc) /\ RLe(a.Tc, a.T) THEN "g"
    ELSE IF Known(a.Psat) THEN (IF RLe(a.P, a.Psat) THEN "g" ELSE "l")
    ELSE IF Known(a.Tb)
    THEN IF RLt(Int2Rat(90000), a.P) /\ RLt(a.P, Int2Rat(110000))
         THEN (IF RLt(a.T, a.Tb) THEN "l" ELSE "g")
         ELSE IF RLt(Int2Rat(110000), a.P)
         THEN (IF RLe(a.T, a.Tb) THEN "l" ELSE PhaseNone)
         ELSE PhaseNone
    ELSE PhaseNone

\* C10: identify_phase applies its rules in strict priority and returns only
\* 's', 'l', 'g' or None: Tm known and T <= Tm -> 's'; else Tc known and
\* T >= Tc -> 'g'; else Psat known -> 'g' if P <= Psat, otherwise 'l'; else
\* Tb known -> the 90 kPa / 110 kPa rule; else None.
C10_PhasePriorityByKnown ==
    PhaseDone =>
        /\ ret.tag = "return"
        /\ ret.phase \in {"s", "l", "g", PhaseNone}
        /\ ret.phase = C10_Phase(args)

IDEAL_VLE == "IDEAL_VLE"

SUPERCRITICAL_T == "SUPERCRITICAL_T"

SUPERCRITICAL_P == "SUPERCRITICAL_P"

IDEAL_VLE_SUPERCRITICAL == "IDEAL_VLE_SUPERCRITICAL"

MIX_NONE == "NONE"

mixture_phase_methods ==
    <<IDEAL_VLE, SUPERCRITICAL_T, SUPERCRITICAL_P, IDEAL_VLE_SUPERCRITICAL>>

\* The vapor pressure put in for a supercritical species (1E8).
PSAT_SUPERCRITICAL == 100000000

MixResult(phase, xs, ys, V_over_F) ==
    [tag |-> "return", phase |-> phase, xs |-> xs, ys |-> ys, V_over_F |-> V_over_F]

\* Truth value of an optional list: None and the empty list are false.
ListTruthy(l) == l # None /\ l.list # <<>>

\* `l and none_and_length_check(checked) and test`: "yes", "no" or "raise"
\* (the TypeError of none_and_length_check on a None input).
MethodApplies(l, checked, test) ==
    IF ~ListTruthy(l) THEN "no"
    ELSE IF none_and_length_check_raises(checked) THEN "raise"
    ELSE IF none_and_length_check(checked) /\ test THEN "yes"
    ELSE "no"

AllAtLeast(v, l) == \A i \in 1..Len(l.list) : RLe(l.list[i], v)

AnyAbove(v, l) == \E i \in 1..Len(l.list) : RLt(l.list[i], v)

\* The four tests of list_methods, in the order they are made.
list_methods_tests(T, P, zs, Tcs, Pcs, Psats) ==
    <<MethodApplies(Psats, <<Psats, zs>>, TRUE),
      MethodApplies(Tcs, <<Tcs>>, AllAtLeast(T, Tcs)),
      MethodApplies(Pcs, <<Pcs>>, AllAtLeast(P, Pcs)),
      MethodApplies(Tcs, <<zs, Tcs>>, AnyAbove(T, Tcs))>>

RECURSIVE AppliedMethods(_, _)
AppliedMethods(tests, i) ==
    IF i > Len(tests) THEN <<MIX_NONE>>
    ELSE IF tests[i] = "yes"
    THEN <<mixture_phase_methods[i]>> \o AppliedMethods(tests, i + 1)
    ELSE AppliedMethods(tests, i + 1)

\* list_methods(): the list, or the TypeError raised by a test.
list_methods(T, P, zs, Tcs, Pcs, Psats) ==
    IF \E i \in 1..4 : list_methods_tests(T, P, zs, Tcs, Pcs, Psats)[i] = "raise"
    THEN Propagate(TypeErr)
    ELSE ReturnMethods(AppliedMethods(list_methods_tests(T, P, zs, Tcs, Pcs, Psats), 1))

\* Faulty variant: the dew test is made before the bubble test.
vle_branches_dew_first(P, zs, Psats, Pdew, at_bubble, flashed) ==
    IF RLe(P, Pdew) THEN MixResult("g", None, zs, One)
    ELSE IF at_bubble THEN MixResult("l", zs, None, Zero)
    ELSE IF Raised(flashed) THEN flashed
    ELSE MixResult("two-phase", SomeList(flashed.xs), SomeList(flashed.ys),
                   flashed.V_over_F)

\* P >= Pbubble -> liquid; P <= Pdew -> gas; Pdew < P < Pbubble -> flash;
\* at_bubble is the outcome of the test P >= Pbubble.
vle_branches(P, zs, Psats, Pdew, at_bubble, flashed) ==
    IF at_bubble THEN MixResult("l", zs, None, Zero)
    ELSE IF RLe(P, Pdew) THEN MixResult("g", None, zs, One)
    ELSE IF Raised(flashed) THEN flashed
    ELSE MixResult("two-phase", SomeList(flashed.xs), SomeList(flashed.ys),
                   flashed.V_over_F)

\* The calls of dew_at_T and bubble_at_T of the IDEAL_VLE branch: the failure
\* one of them raises, or NoResult when both returned a pressure.
ideal_vle_pressures(zs, Psats) ==
    IF Raised(dew_at_T(zs, Psats, None, None))
    THEN dew_at_T(zs, Psats, None, None)
    ELSE IF Raised(bubble_at_T(zs, Psats, None, None))
    THEN bubble_at_T(zs, Psats, None, None)
    ELSE NoResult

\* flash is called in the IDEAL_VLE branch.
ideal_vle_flashes(P, zs, Psats) ==
    /\ ideal_vle_pressures(zs, Psats) = NoResult
    /\ ~RLe(bubble_at_T(zs, Psats, None, None).val, P)
    /\ ~RLe(P, dew_at_T(zs, Psats, None, None).val)

ideal_vle(P, zs, Psats, flashed) ==
    IF ideal_vle_pressures(zs, Psats) # NoResult
    THEN ideal_vle_pressures(zs, Psats)
    ELSE vle_branches(P, zs, Psats, dew_at_T(zs, Psats, None, None).val,
                      RLe(bubble_at_T(zs, Psats, None, None).val, P), flashed)

\* all([v >= i for i in l]) of the SUPERCRITICAL_T and SUPERCRITICAL_P
\* branches: iterating over None is a TypeError.
supercritical(v, l) ==
    IF l = None THEN Propagate(TypeErr)
    ELSE IF AllAtLeast(v, l) THEN MixResult("g", None, None, None)
    ELSE MixResult("two-phase", None, None, None)

\* One pass of the loop over Psats: the entry kept or replaced, or the
\* exception raised by Tcs[i].
supercritical_Psat(Psats, Tcs, T, i) ==
    IF Truthy(Psats.list[i]) THEN Psats.list[i]
    ELSE IF IsExc(Item(Tcs, i)) THEN Item(Tcs, i)
    ELSE IF Truthy(Item(Tcs, i)) /\ RLe(Item(Tcs, i), T) THEN Int2Rat(PSAT_SUPERCRITICAL)
    ELSE Psats.list[i]

\* Psats = list(Psats) and the loop: the new list, or the exception raised.
supercritical_Psats(Psats, Tcs, T) ==
    IF Psats = None THEN TypeErr
    ELSE IF HasExc([i \in 1..Len(Psats.list) |-> supercritical_Psat(Psats, Tcs, T, i)])
    THEN FirstExc([i \in 1..Len(Psats.list) |-> supercritical_Psat(Psats, Tcs, T, i)])
    ELSE SomeList([i \in 1..Len(Psats.list) |-> supercritical_Psat(Psats, Tcs, T, i)])

ideal_vle_supercritical_flashes(P, zs, Psats, Tcs, T) ==
    /\ ~IsExc(supercritical_Psats(Psats, Tcs, T))
    /\ ~Raised(dew_at_T(zs, supercritical_Psats(Psats, Tcs, T), None, None))
    /\ ~RLe(P, dew_at_T(zs, supercritical_Psats(Psats, Tcs, T), None, None).val)

\* Pbubble = 1E99 is above every pressure of the model: P >= Pbubble is false.
ideal_vle_supercritical(P, zs, Psats, Tcs, T, flashed) ==
    IF IsExc(supercritical_Psats(Psats, Tcs, T))
    THEN Propagate(supercritical_Psats(Psats, Tcs, T))
    ELSE IF Raised(dew_at_T(zs, supercritical_Psats(Psats, Tcs, T), None, None))
    THEN dew_at_T(zs, supercritical_Psats(Psats, Tcs, T), None, None)
    ELSE vle_branches(P, zs, supercritical_Psats(Psats, Tcs, T),
                      dew_at_T(zs, supercritical_Psats(Psats, Tcs, T), None, None).val,
                      FALSE, flashed)

\* The Method used: the one given, or the first of list_methods().
mixture_method(T, P, zs, Tcs, Pcs, Psats, Method) ==
    IF Method # MethodNone THEN Method
    ELSE IF Raised(list_methods(T, P, zs, Tcs, Pcs, Psats)) THEN MethodNone
    ELSE list_methods(T, P, zs, Tcs, Pcs, Psats).methods[1]

\* The arguments of the call of flash made by the Method, or None.
mixture_flash_args(T, P, zs, Tcs, Pcs, Psats, Method) ==
    IF Method = IDEAL_VLE /\ ideal_vle_flashes(P, zs, Psats)
    THEN [P |-> P, zs |-> zs.list, Psats |-> Psats.list]
    ELSE IF Method = IDEAL_VLE_SUPERCRITICAL
            /\ ideal_vle_supercritical_flashes(P, zs, Psats, Tcs, T)
    THEN [P |-> P, zs |-> zs.list, Psats |-> supercritical_Psats(Psats, Tcs, T).list]
    ELSE None

\* The section after the Method is known, flashed being the outcome of flash.
mixture_calculate(T, P, zs, Tcs, Pcs, Psats, Method, flashed) ==
    IF Method = IDEAL_VLE THEN ideal_vle(P, zs, Psats, flashed)
    ELSE IF Method = SUPERCRITICAL_T THEN supercritical(T, Tcs)
    ELSE IF Method = SUPERCRITICAL_P THEN supercritical(P, Pcs)
    ELSE IF Method = IDEAL_VLE_SUPERCRITICAL
    THEN ideal_vle_supercritical(P, zs, Psats, Tcs, T, flashed)
    ELSE IF Method = MIX_NONE THEN MixResult(PhaseNone, None, None, None)
    ELSE Raise("Exception", "Failure in in function")

\* The outcomes of flash(P, zs, Psats), as a set.
flash(P, zs, Psats, IS_PYPY) ==
    IF flash_before_inner_loop(P, zs, Psats) # NoResult
    THEN {flash_before_inner_loop(P, zs, Psats)}
    ELSE {flash_after_inner_loop(r) :
             r \in flash_inner_loop(zs, KsValues(flash_Ks(P, zs, Psats)),
                                    FALSE, MethodNone, IS_PYPY)}

MaxNMix == 3

\* Mole fractions 0, 1/4, 1/2; vapor pressures 1, 2, 3; critical
\* temperatures below and above the temperatures 2 and 3; critical pressure 2;
\* pressures below, inside, at the edge of and above the two-phase windows.
\* A call either varies the vapor pressures with no critical properties, or
\* the critical properties with few vapor pressures.  Fewer than ten species
\* are flashed, for which the backend (IS_PYPY) has no effect.
MixZVals == {Zero, Rat(1, 4), Rat(1, 2)}

MixPsatVals == {Int2Rat(1), Int2Rat(2), Int2Rat(3)}

MixTcVals == {Int2Rat(1), Int2Rat(3)}

MixTVals == {Int2Rat(2), Int2Rat(3)}

MixPVals == {Int2Rat(1), Rat(7, 4), Int2Rat(2), Int2Rat(3)}

\* Lists of length n: every list over Vals up to two species, the lists
\* with one value in front and another behind it for more.
MixLists(n, Vals) ==
    IF n <= 2 THEN [1..n -> Vals]
    ELSE {[i \in 1..n |-> IF i = 1 THEN a ELSE b] : a \in Vals, b \in Vals}

\* Vapor pressures of n species: all equal, with an unknown (None) or zero
\* entry in front, or one entry too long.
MixPsatsFew(n) ==
    {[i \in 1..n |-> IF i = 1 THEN d ELSE Int2Rat(2)] : d \in {None, Zero, Int2Rat(2)}}
    \cup {[i \in 1..(n + 1) |-> One]}

\* The same and every list up to three species.
MixPsats(n) ==
    (IF n <= 3 THEN [1..n -> MixPsatVals] ELSE MixLists(n, MixPsatVals))
    \cup MixPsatsFew(n)

Opt(S) == {SomeList(l) : l \in S} \cup {None}

MixMethods ==
    {IDEAL_VLE, SUPERCRITICAL_T, SUPERCRITICAL_P, IDEAL_VLE_SUPERCRITICAL,
     MIX_NONE, "Bogus", MethodNone}

InitMix ==
    /\ fn = "identify_phase_mixture"
    /\ \E n \in 0..MaxNMix :
          \/ args \in [T : MixTVals, P : MixPVals, zs : Opt(MixLists(n, MixZVals)),
                       Tcs : {None}, Pcs : {None}, Psats : Opt(MixPsats(n)),
                       Method : MixMethods, AvailableMethods : BOOLEAN,
                       IS_PYPY : {FALSE}]
          \/ args \in [T : MixTVals, P : MixPVals, zs : Opt(MixLists(n, MixZVals)),
                       Tcs : Opt(MixLists(n, MixTcVals)),
                       Pcs : Opt({[i \in 1..n |-> Int2Rat(2)]}),
                       Psats : Opt(MixPsatsFew(n)),
                       Method : MixMethods, AvailableMethods : BOOLEAN,
                       IS_PYPY : {FALSE}]
    /\ args.AvailableMethods => args.Method = MethodNone
    /\ ret = NoResult
    /\ pc = "call"
    /\ method = NotCalled
    /\ inner = NoResult
    /\ stack = <<>>
    /\ heap = <<>>
    /\ objs = <<>>
    /\ ncalls = 0

Callidentify_phase_mixture ==
    /\ pc = "call"
    /\ fn = "identify_phase_mixture"
    /\ LET lm == list_methods(args.T, args.P, args.zs, args.Tcs, args.Pcs, args.Psats)
           M == mixture_method(args.T, args.P, args.zs, args.Tcs, args.Pcs,
                               args.Psats, args.Method)
           fa == mixture_flash_args(args.T, args.P, args.zs, args.Tcs, args.Pcs,
                                    args.Psats, M)
       IN  IF args.AvailableMethods
           THEN /\ ret' = lm
                /\ UNCHANGED <<method, inner, heap, objs, ncalls>>
           ELSE IF args.Method = MethodNone /\ Raised(lm)
           THEN /\ ret' = lm
                /\ UNCHANGED <<method, inner, heap, objs, ncalls>>
           ELSE IF fa = None
           THEN /\ ret' = mixture_calculate(args.T, args.P, args.zs, args.Tcs,
                                            args.Pcs, args.Psats, M, NoResult)
                /\ method' = M
                /\ UNCHANGED inner
           ELSE /\ inner' \in flash(fa.P, fa.zs, fa.Psats, args.IS_PYPY)
                /\ ret' = mixture_calculate(args.T, args.P, args.zs, args.Tcs,
                                            args.Pcs, args.Psats, M, inner')
                /\ method' = M
    /\ pc' = "done"
    /\ UNCHANGED <<fn, args, stack, heap, objs, ncalls>>

NextMix == Callidentify_phase_mixture

SpecMix == InitMix /\ [][NextMix]_vars

(***************************************************************************)
(* Claims about identify_phase_mixture                                     *)
(***************************************************************************)
MixDone == pc = "done" /\ fn = "identify_phase_mixture"

\* A solving call that ran the IDEAL_VLE branch and got both pressures.
C12_IdealVLE ==
    /\ MixDone /\ ~args.AvailableMethods /\ method = IDEAL_VLE
    /\ ~Raised(dew_at_T(args.zs, args.Psats, None, None))
    /\ ~Raised(bubble_at_T(args.zs, args.Psats, None, None))

C12_Pdew == dew_at_T(args.zs, args.Psats, None, None).val

C12_Pbubble == bubble_at_T(args.zs, args.Psats, None, None).val

\* C12: with the IDEAL_VLE method and Pdew = dew_at_T(zs, Psats), Pbubble =
\* bubble_at_T(zs, Psats), every pressure falls in exactly one branch:
\* P >= Pbubble gives ('l', zs, None, 0) and otherwise P <= Pdew gives
\* ('g', None, zs, 1), both without a flash; otherwise flash(P, zs, Psats) is
\* called and its outcome is the result: ('two-phase', xs, ys, V_over_F) with
\* the xs, ys and V_over_F it returned, or the failure it raised.
C12_IdealVLEBranches ==
    C12_IdealVLE =>
        IF RLe(C12_Pbubble, args.P)
        THEN ret = MixResult("l", args.zs, None, Zero) /\ inner = NoResult
        ELSE IF RLe(args.P, C12_Pdew)
        THEN ret = MixResult("g", None, args.zs, One) /\ inner = NoResult
        ELSE /\ inner # NoResult
             /\ Raised(inner) => ret = inner
             /\ ~Raised(inner) =>
                   ret = MixResult("two-phase", SomeList(inner.xs),
                                   SomeList(inner.ys), inner.V_over_F)

\* The two-phase branch returned the flash of two species at a pressure
\* inside the window.
C12_Witness ==
    /\ C12_IdealVLE
    /\ RLt(C12_Pdew, args.P) /\ RLt(args.P, C12_Pbubble)
    /\ ret.tag = "return" /\ ret.phase = "two-phase"
    /\ ret.V_over_F = inner.V_over_F
    /\ Len(ret.xs.list) = 2

\* zs sums to 1 and every vapor pressure is a positive number, one for each
\* species.
C13_Composition ==
    /\ args.zs # None /\ args.Psats # None
    /\ Len(args.Psats.list) = Len(args.zs.list)
    /\ \A i \in 1..Len(args.Psats.list) :
          args.Psats.list[i] # None /\ RLt(Zero, args.Psats.list[i])
    /\ PySum(args.zs.list) = One

\* C13: for zs summing to 1, positive Psats and dew_at_T(zs, Psats) < P <
\* bubble_at_T(zs, Psats), the flash of the two-phase branch does not fail and
\* identify_phase_mixture returns a 'two-phase' result; the vapor fraction,
\* compared where the model has its exact value (two species), lies strictly
\* between 0 and 1.
C13_TwoPhaseFlashSucceeds ==
    (/\ C12_IdealVLE /\ C13_Composition
     /\ RLt(C12_Pdew, args.P) /\ RLt(args.P, C12_Pbubble)) =>
        /\ inner.tag = "return"
        /\ ret.tag = "return" /\ ret.phase = "two-phase"
        /\ Len(args.zs.list) = 2 =>
              RLt(Zero, ret.V_over_F) /\ RLt(ret.V_over_F, One)

\* One of zs, Psats, Tcs and Pcs was not supplied.
C26_InputAbsent == None \in {args.zs, args.Psats, args.Tcs, args.Pcs}

\* The first method, in the order IDEAL_VLE, SUPERCRITICAL_T, SUPERCRITICAL_P,
\* IDEAL_VLE_SUPERCRITICAL, NONE, whose inputs were supplied and whose test
\* holds.
C26_FirstApplicable ==
    LET both(a, b) == ListTruthy(a) /\ b # None /\ none_and_length_check(<<a, b>>)
        one(a) == ListTruthy(a) /\ none_and_length_check(<<a>>)
    IN  IF both(args.Psats, args.zs) THEN IDEAL_VLE
        ELSE IF one(args.Tcs) /\ AllAtLeast(args.T, args.Tcs) THEN SUPERCRITICAL_T
        ELSE IF one(args.Pcs) /\ AllAtLeast(args.P, args.Pcs) THEN SUPERCRITICAL_P
        ELSE IF both(args.Tcs, args.zs) /\ args.Psats # None
                /\ AnyAbove(args.T, args.Tcs)
        THEN IDEAL_VLE_SUPERCRITICAL
        ELSE MIX_NONE

\* C26: a call with no Method given runs the first applicable method in the
\* order IDEAL_VLE, SUPERCRITICAL_T, SUPERCRITICAL_P, IDEAL_VLE_SUPERCRITICAL,
\* NONE, which needs supplied inputs only: the call returns a tuple, the
\* tuple (None, None, None, None) when no method applies, and does not fail
\* on an input that was not supplied.
C26_AutoMethodNeedsSuppliedInputsOnly ==
    (MixDone /\ ~args.AvailableMethods /\ args.Method = MethodNone) =>
        /\ C26_InputAbsent => ret # Propagate(TypeErr)
        /\ method = C26_FirstApplicable
        /\ method = MIX_NONE => ret = MixResult(PhaseNone, None, None, None)

(***************************************************************************)
(* flash_wilson and flash_Tb_Tc_Pc.  The two functions have the same seven *)
(* solve modes and call themselves; stack holds the frames of the calls in *)
(* progress, the innermost last.  The K-value correlations (exp, powers)   *)
(* and the compositions are not computed: a pressure or temperature set    *)
(* by a mode, the outcome of flash_inner_loop and the results of newton    *)
(* and brenth are a nondeterministic choice among a few values.            *)
(***************************************************************************)
T_MAX == 50000

PVFNames == {"flash_wilson", "flash_Tb_Tc_Pc"}

ProvideTwo == Raise("ValueError", "Provide two of P, T, and VF")

\* "Bisecting solver could not find a solution between %g K and %g K"
\* % (T_MAX, T_low_guess)
BisectFailure(high, low) ==
    [tag |-> "raise", exc |-> "Exception",
     msg |-> "Bisecting solver could not find a solution between %g K and %g K",
     bounds |-> <<high, low>>]

\* newton did not converge; a failure of to_solve inside brenth other than
\* brenth's own ValueError; a failure of flash_inner_loop.
NewtonFailure == Raise("UnconvergedError", "Failed to converge")

ToSolveFailure == Raise("OverflowError", "math range error")

InnerLoopFailure == Propagate(ZeroDiv)

PVFResult(T, P, VF) == [tag |-> "return", T |-> T, P |-> P, VF |-> VF]

\* Faulty variant: the T&P mode is taken only when no VF is given.
Mode_VF_honoured(T, P, VF) ==
    IF T # None /\ P # None /\ VF = None THEN "T&P"
    ELSE IF T # None /\ VF = Zero THEN "T,VF=0"
    ELSE IF T # None /\ VF = One THEN "T,VF=1"
    ELSE IF T # None /\ VF # None THEN "T,VF"
    ELSE IF P # None /\ VF = One THEN "P,VF=1"
    ELSE IF P # None /\ VF = Zero THEN "P,VF=0"
    ELSE IF P # None /\ VF # None THEN "P,VF"
    ELSE "none"

\* Faulty variant: the tests for another VF are made before those for VF = 0
\* and VF = 1.
Mode_general_VF_first(T, P, VF) ==
    IF T # None /\ P # None THEN "T&P"
    ELSE IF T # None /\ VF # None THEN "T,VF"
    ELSE IF T # None /\ VF = Zero THEN "T,VF=0"
    ELSE IF T # None /\ VF = One THEN "T,VF=1"
    ELSE IF P # None /\ VF # None THEN "P,VF"
    ELSE IF P # None /\ VF = One THEN "P,VF=1"
    ELSE IF P # None /\ VF = Zero THEN "P,VF=0"
    ELSE "none"

\* The chain of tests on T, P and VF.
Mode(T, P, VF) ==
    IF T # None /\ P # None THEN "T&P"
    ELSE IF T # None /\ VF = Zero THEN "T,VF=0"
    ELSE IF T # None /\ VF = One THEN "T,VF=1"
    ELSE IF T # None /\ VF # None THEN "T,VF"
    ELSE IF P # None /\ VF = One THEN "P,VF=1"
    ELSE IF P # None /\ VF = Zero THEN "P,VF=0"
    ELSE IF P # None /\ VF # None THEN "P,VF"
    ELSE "none"

\* at: the position in the call; lo, hi: P_low / T_low and P_high / T_high;
\* n: the calls of err made by brenth so far and info their last result;
\* newton, brenth: the outcomes of the two root finders of a saturated
\* P mode; res: the outcome of the call.
Frame(T, P, VF) ==
    [mode |-> Mode(T, P, VF), T |-> T, P |-> P, VF |-> VF, at |-> "start",
     lo |-> None, hi |-> None, n |-> 0, info |-> NoResult,
     newton |-> NoResult, brenth |-> NoResult, res |-> NoResult]

Top == stack[Len(stack)]

SetTop(f) == [stack EXCEPT ![Len(stack)] = f]

Push(f, g) == SetTop(f) \o <<g>>

Finish(r) == SetTop([Top EXCEPT !.at = "done", !.res = r])

Running == pc = "run" /\ fn \in PVFNames /\ stack # <<>>

\* Faulty variant: the try block is missing from every mode of flash_wilson.
NewtonGuarded_Tb_Tc_Pc_only(f, mode) == f = "flash_Tb_Tc_Pc"

\* newton is called inside a try block (a failure leads to brenth).
NewtonGuarded(f, mode) == ~(f = "flash_wilson" /\ mode = "P,VF=0")

\* T > T_MAX*5.0
TooHigh(T) == RLt(Int2Rat(5 * T_MAX), T)

MaxErrCalls == 3

\* Roots newton comes back with: usual, negative, at and above T_MAX*5.0.
NewtonTVals ==
    {Int2Rat(300), Int2Rat(0 - 350), Int2Rat(5 * T_MAX), Int2Rat(5 * T_MAX + 1)}

\* abs(x)
PyAbs(x) == Rat(IF x.n < 0 THEN 0 - x.n ELSE x.n, x.d)

BrenthTVals == {Int2Rat(400)}

PCalcVals == {Int2Rat(2)}

VFCalcVals == {Rat(1, 4), Rat(3, 4)}

InitPVF ==
    /\ fn \in PVFNames
    /\ args \in [T : {None, Int2Rat(300)}, P : {None, Int2Rat(1)},
                 VF : {None, Zero, Rat(1, 2), One}, T_low_guess : {Int2Rat(30)}]
    /\ ret = NoResult
    /\ pc = "call"
    /\ method = NotCalled
    /\ inner = NoResult
    /\ stack = <<>>
    /\ heap = <<>>
    /\ objs = <<>>
    /\ ncalls = 0

\* The call enters the function; method is the mode of the outermost call.
CallPVF ==
    /\ pc = "call" /\ fn \in PVFNames
    /\ stack' = <<Frame(args.T, args.P, args.VF)>>
    /\ method' = Mode(args.T, args.P, args.VF)
    /\ pc' = "run"
    /\ UNCHANGED <<fn, args, ret, inner, heap, objs, ncalls>>

\* else: raise ValueError("Provide two of P, T, and VF")
RaiseProvideTwo ==
    /\ Running /\ Top.at = "start" /\ Top.mode = "none"
    /\ stack' = Finish(ProvideTwo)
    /\ UNCHANGED <<fn, args, ret, pc, method, inner, heap, objs, ncalls>>

\* return (T, P) + flash_inner_loop(zs=zs, Ks=Ks)
FlashTP ==
    /\ Running /\ Top.at = "start" /\ Top.mode = "T&P"
    /\ \E r \in {PVFResult(Top.T, Top.P, v) : v \in VFCalcVals} \cup {InnerLoopFailure} :
          stack' = Finish(r)
    /\ UNCHANGED <<fn, args, ret, pc, method, inner, heap, objs, ncalls>>

\* T and VF = 0 or 1: P_bubble or P_dew, then the T&P call.
SaturatedAtT ==
    /\ Running /\ Top.at = "start" /\ Top.mode \in {"T,VF=0", "T,VF=1"}
    /\ \E Pcalc \in PCalcVals :
          stack' = Push([Top EXCEPT !.at = "tail"], Frame(Top.T, Pcalc, None))
    /\ UNCHANGED <<fn, args, ret, pc, method, inner, heap, objs, ncalls>>

\* T or P and another VF: the VF=1 call for the low end,
GeneralLow ==
    /\ Running /\ Top.at = "start" /\ Top.mode \in {"T,VF", "P,VF"}
    /\ stack' = Push([Top EXCEPT !.at = "low"], Frame(Top.T, Top.P, One))
    /\ UNCHANGED <<fn, args, ret, pc, method, inner, heap, objs, ncalls>>

\* the VF=0 call for the high end,
GeneralHigh ==
    /\ Running /\ Top.at = "has_low"
    /\ stack' = Push([Top EXCEPT !.at = "high"], Frame(Top.T, Top.P, Zero))
    /\ UNCHANGED <<fn, args, ret, pc, method, inner, heap, objs, ncalls>>

\* brenth(err, low, high): a call of err is a T&P call,
BrenthErr ==
    /\ Running /\ Top.at = "brenth" /\ Top.n < MaxErrCalls
    /\ \E x \in {Top.lo, Top.hi} :
          stack' = Push([Top EXCEPT !.at = "err", !.n = @ + 1],
                        IF Top.mode = "T,VF" THEN Frame(Top.T, x, None)
                        ELSE Frame(x, Top.P, None))
    /\ UNCHANGED <<fn, args, ret, pc, method, inner, heap, objs, ncalls>>

\* and brenth returns (the result is tuple(info)) or, both ends evaluated,
\* raises its ValueError.
BrenthDone ==
    /\ Running /\ Top.at = "brenth" /\ Top.n >= 2
    /\ \/ stack' = Finish(Top.info)
       \/ Top.n = 2 /\ stack' = Finish(SolverFailure)
    /\ UNCHANGED <<fn, args, ret, pc, method, inner, heap, objs, ncalls>>

\* P and VF = 1 or 0: abs(newton(to_solve, T_guess)).
Newton ==
    /\ Running /\ Top.at = "start" /\ Top.mode \in {"P,VF=1", "P,VF=0"}
    /\ \/ \E t \in {PyAbs(x) : x \in NewtonTVals} :
             IF TooHigh(t)
             THEN stack' = SetTop([Top EXCEPT !.newton = Return(t), !.at = "bracket"])
             ELSE stack' = Push([Top EXCEPT !.newton = Return(t), !.at = "tail"],
                                Frame(t, Top.P, None))
       \/ IF NewtonGuarded(fn, Top.mode)
          THEN stack' = SetTop([Top EXCEPT !.newton = NewtonFailure, !.at = "bracket"])
          ELSE stack' = SetTop([Top EXCEPT !.newton = NewtonFailure, !.at = "done",
                                           !.res = NewtonFailure])
    /\ UNCHANGED <<fn, args, ret, pc, method, inner, heap, objs, ncalls>>

\* brenth(to_solve, T_MAX, T_low_guess) with its ValueError turned into the
\* failure naming the two bounds.
Bracket ==
    /\ Running /\ Top.at = "bracket"
    /\ \/ \E t \in BrenthTVals :
             stack' = Push([Top EXCEPT !.brenth = Return(t), !.at = "tail"],
                           Frame(t, Top.P, None))
       \/ stack' = SetTop([Top EXCEPT !.brenth = SolverFailure, !.at = "done",
                                      !.res = BisectFailure(Int2Rat(T_MAX), args.T_low_guess)])
       \/ stack' = SetTop([Top EXCEPT !.brenth = ToSolveFailure, !.at = "done",
                                      !.res = ToSolveFailure])
    /\ UNCHANGED <<fn, args, ret, pc, method, inner, heap, objs, ncalls>>

\* What the caller does with the outcome r of the call it made.
Deliver(f, r) ==
    IF Raised(r) \/ f.at = "tail" THEN [f EXCEPT !.at = "done", !.res = r]
    ELSE IF f.at = "low"
    THEN [f EXCEPT !.at = "has_low", !.lo = IF f.mode = "T,VF" THEN r.P ELSE r.T]
    ELSE IF f.at = "high"
    THEN [f EXCEPT !.at = "brenth", !.hi = IF f.mode = "T,VF" THEN r.P ELSE r.T]
    ELSE [f EXCEPT !.at = "brenth", !.info = r]

\* A nested call returns or raises into its caller.
ReturnToCaller ==
    /\ Running /\ Top.at = "done" /\ Len(stack) > 1
    /\ stack' = SubSeq(stack, 1, Len(stack) - 2)
                   \o <<Deliver(stack[Len(stack) - 1], Top.res)>>
    /\ UNCHANGED <<fn, args, ret, pc, method, inner, heap, objs, ncalls>>

\* The outermost call returns or raises; its frame is kept.
ReturnPVF ==
    /\ Running /\ Top.at = "done" /\ Len(stack) = 1
    /\ ret' = Top.res
    /\ pc' = "done"
    /\ UNCHANGED <<fn, args, method, inner, stack, heap, objs, ncalls>>

NextPVF ==
    \/ CallPVF \/ RaiseProvideTwo \/ FlashTP \/ SaturatedAtT \/ GeneralLow
    \/ GeneralHigh \/ BrenthErr \/ BrenthDone \/ Newton \/ Bracket
    \/ ReturnToCaller \/ ReturnPVF

SpecPVF == InitPVF /\ [][NextPVF]_vars

(***************************************************************************)
(* Claims about flash_wilson and flash_Tb_Tc_Pc                            *)
(***************************************************************************)
PVFDone == pc = "done" /\ fn \in PVFNames

C14_Supplied == Cardinality({k \in {"T", "P", "VF"} : args[k] # None})

\* C14: the call fails with 'Provide two of P, T, and VF' exactly when fewer
\* than two of T, P and VF are supplied, and no call the function makes to
\* itself fails that way; with T and P both supplied the T&P mode is used
\* whatever VF is: no other call is made and a returned result carries the
\* T and P supplied.
C14_ProvideTwoOfThree ==
    /\ PVFDone => (ret = ProvideTwo <=> C14_Supplied < 2)
    /\ (fn \in PVFNames /\ pc # "call") =>
          /\ \A i \in 2..Len(stack) :
                stack[i].mode # "none" /\ stack[i].res # ProvideTwo
          /\ (args.T # None /\ args.P # None) =>
                /\ method = "T&P" /\ Len(stack) = 1
                /\ (pc = "done" /\ ~Raised(ret)) => (ret.T = args.T /\ ret.P = args.P)

\* Only VF was supplied and the call failed.
C14_Witness ==
    /\ PVFDone /\ args.VF # None /\ args.T = None /\ args.P = None
    /\ ret = ProvideTwo

\* The temperature a saturated P mode found: brenth's if it ran, else newton's.
TFound(f) == IF f.brenth # NoResult THEN f.brenth.val ELSE f.newton.val

\* newton raised or came back above T_MAX*5.0.
NewtonUnusable(f) ==
    f.newton = NewtonFailure \/ (f.newton.tag = "return" /\ TooHigh(f.newton.val))

\* C15: in every call in the P, VF=1 mode, of either function: brenth is run
\* exactly when newton raised or returned a temperature above 5*50000 K; when
\* brenth cannot bracket a root the call fails with the failure naming the
\* bounds 50000 K and the low guess; and when a temperature was found the
\* next call is the T&P call at that temperature and the P supplied, whose
\* outcome is the outcome of the call.
C15_DewModeFallback ==
    \A i \in 1..Len(stack) :
        (fn \in PVFNames /\ stack[i].mode = "P,VF=1" /\ stack[i].newton # NoResult) =>
            /\ NewtonUnusable(stack[i]) <=>
                  (stack[i].at = "bracket" \/ stack[i].brenth # NoResult)
            /\ stack[i].brenth = SolverFailure =>
                  /\ stack[i].at = "done"
                  /\ stack[i].res = BisectFailure(Int2Rat(T_MAX), args.T_low_guess)
            /\ stack[i].at = "tail" =>
                  /\ Len(stack) > i
                  /\ stack[i + 1].mode = "T&P"
                  /\ stack[i + 1].T = TFound(stack[i])
                  /\ stack[i + 1].P = stack[i].P
            /\ (stack[i].at = "done" /\ ~Raised(stack[i].res)) =>
                  /\ stack[i].res.T = TFound(stack[i])
                  /\ stack[i].res.P = stack[i].P

\* A P, VF=1 call whose newton raised, whose brenth found a temperature, and
\* which returned the T&P flash there.
C15_Witness ==
    /\ PVFDone /\ method = "P,VF=1"
    /\ stack[1].newton = NewtonFailure
    /\ stack[1].brenth.tag = "return"
    /\ ret = PVFResult(stack[1].brenth.val, args.P, ret.VF)

\* C16: in every call in the P, VF=0 mode, of flash_wilson as of
\* flash_Tb_Tc_Pc, a failure of newton is not the outcome of the call: brenth
\* is run instead.
C16_BubbleModeFallback ==
    \A i \in 1..Len(stack) :
        (fn \in PVFNames /\ stack[i].mode = "P,VF=0"
         /\ stack[i].newton = NewtonFailure) =>
            /\ stack[i].res # NewtonFailure
            /\ stack[i].at = "bracket" \/ stack[i].brenth # NoResult

\* The modes that solve for a saturated state: VF = 0 or VF = 1.
C27_Saturated == {"T,VF=0", "T,VF=1", "P,VF=0", "P,VF=1"}

\* C27: at every moment of a call of flash_wilson or flash_Tb_Tc_Pc the calls
\* in progress are at most three deep; a call in the T&P mode makes no call;
\* a call in a saturated mode (VF = 0 or 1) calls the T&P mode only; a call
\* in a general VF mode calls the T&P mode or a saturated mode; and no call
\* in progress has the mode of a call it is nested in.
C27_RecursionIsBounded ==
    fn \in PVFNames =>
        /\ Len(stack) <= 3
        /\ \A i \in 2..Len(stack) :
              /\ stack[i - 1].mode \in C27_Saturated \cup {"T,VF", "P,VF"}
              /\ stack[i - 1].mode \in C27_Saturated => stack[i].mode = "T&P"
              /\ stack[i - 1].mode \in {"T,VF", "P,VF"} =>
                    stack[i].mode \in C27_Saturated \cup {"T&P"}
              /\ \A k \in 1..(i - 1) : stack[k].mode # stack[i].mode

\* Three calls in progress: a general VF mode, the saturated mode it called
\* and the T&P call of that one.
C27_Witness ==
    /\ fn \in PVFNames /\ pc = "run"
    /\ Len(stack) = 3
    /\ stack[1].mode = "P,VF" /\ stack[2].mode = "P,VF=0" /\ stack[3].mode = "T&P"
    /\ stack[2].brenth # NoResult

(***************************************************************************)
(* get_T_bub_est and get_T_dew_est                                         *)
(*                                                                         *)
(* The K-value correlation is not computed, so a temperature is not a      *)
(* number here but a name: the estimates of one call are numbered, the     *)
(* i-th being the one the i-th pass of the loop evaluates, and T_LO and    *)
(* T_HI are "0.0" (their initial value), "last" (the estimate of the       *)
(* pass before) or "earlier".  The first estimate is taken positive, and   *)
(* a product by 1.1, a quotient by 1.1 and an interpolation between two    *)
(* positive temperatures with residuals of opposite signs are positive,    *)
(* so T_LO*T_HI > 0.0 holds exactly when neither is still 0.0.  The        *)
(* residual sum of a pass, and the two convergence tests, are a            *)
(* nondeterministic choice.                                                *)
(***************************************************************************)
BUB_ITERATIONS == 1000

DEW_ITERATIONS == 10000

EstNames == {"get_T_bub_est", "get_T_dew_est"}

\* range(1000) and range(10000)
Budget(f) == IF f = "get_T_bub_est" THEN BUB_ITERATIONS ELSE DEW_ITERATIONS

\* The i-th estimate, and how it was proposed by the pass before.
Estimate(i, how) == [est |-> i, how |-> how]

\* T_LO = T_HI = 0.0 and the loop about to start.  seen and last are history:
\* the residual sums the passes made so far have come to, and that of the
\* latest pass.
EstFrame(f) ==
    [f |-> f, i |-> 0, how |-> "init", T_LO |-> "0.0", T_HI |-> "0.0",
     at |-> "loop", res |-> NoResult, seen |-> {}, last |-> "none"]

\* The residual sum of a pass: < 1., > 1., neither, or the correlation raises.
ResidualSums == {"below", "above", "one", "raise"}

\* T_LO or T_HI one pass later.
Aged(t) == IF t = "0.0" THEN "0.0" ELSE "earlier"

\* T_LO*T_HI > 0.0
Bracketed(lo, hi) == lo # "0.0" /\ hi # "0.0"

\* T_new before the interpolation: get_T_bub_est raises the estimate when
\* the sum is below 1, get_T_dew_est lowers it.
Step(f, y) == IF (f = "get_T_bub_est") <=> (y = "below") THEN "*1.1" ELSE "/1.1"

\* Faulty variant: the interpolation is used as soon as one of T_LO and T_HI
\* is set.
T_new_one_end(f, y, lo, hi) ==
    IF lo # "0.0" \/ hi # "0.0" THEN "secant" ELSE Step(f, y)

\* The estimate proposed for the next pass.
T_new(f, y, lo, hi) == IF Bracketed(lo, hi) THEN "secant" ELSE Step(f, y)

\* One pass of the loop on the frame fr: y the residual sum, small whether
\* abs(T_est - T_new) < 1E-3 and near whether abs(sum - 1.) < 1E-5.
Pass(fr, y, small, near) ==
    LET lo == IF y = "below" THEN "last" ELSE Aged(fr.T_LO)
        hi == IF y = "above" THEN "last" ELSE Aged(fr.T_HI)
    IN  IF y = "raise" THEN [fr EXCEPT !.at = "done", !.res = Propagate(ZeroDiv)]
        ELSE IF y = "one"
        THEN [fr EXCEPT !.at = "done", !.res = Return(Estimate(fr.i, fr.how)),
                        !.seen = @ \cup {y}, !.last = y]
        ELSE IF small \/ near
        THEN [fr EXCEPT !.at = "done", !.T_LO = lo, !.T_HI = hi,
                        !.res = Return(Estimate(fr.i, fr.how)),
                        !.seen = @ \cup {y}, !.last = y]
        ELSE [fr EXCEPT !.i = @ + 1, !.how = T_new(fr.f, y, lo, hi),
                        !.T_LO = lo, !.T_HI = hi,
                        !.seen = @ \cup {y}, !.last = y]

InitEst ==
    /\ fn \in EstNames
    /\ args \in [T_bub_est : {None, Int2Rat(300)}]
    /\ (fn = "get_T_bub_est") => (args.T_bub_est = None)
    /\ ret = NoResult
    /\ pc = "call"
    /\ method = NotCalled
    /\ inner = NoResult
    /\ stack = <<>>
    /\ heap = <<>>
    /\ objs = <<>>
    /\ ncalls = 0

RunningEst == pc = "run" /\ fn \in EstNames /\ stack # <<>>

\* The call enters the function; get_T_dew_est without T_bub_est calls
\* get_T_bub_est first.
CallEst ==
    /\ pc = "call" /\ fn \in EstNames
    /\ stack' = IF fn = "get_T_dew_est" /\ args.T_bub_est = None
                THEN <<[EstFrame(fn) EXCEPT !.at = "bub"], EstFrame("get_T_bub_est")>>
                ELSE <<EstFrame(fn)>>
    /\ pc' = "run"
    /\ UNCHANGED <<fn, args, ret, method, inner, heap, objs, ncalls>>

\* One pass of for i in range(...).
Iterate ==
    /\ RunningEst /\ Top.at = "loop" /\ Top.i < Budget(Top.f)
    /\ \E y \in ResidualSums, small \in BOOLEAN, near \in BOOLEAN :
          stack' = SetTop(Pass(Top, y, small, near))
    /\ UNCHANGED <<fn, args, ret, pc, method, inner, heap, objs, ncalls>>

\* The loop ends without a return statement: the function returns None.
Exhausted ==
    /\ RunningEst /\ Top.at = "loop" /\ Top.i = Budget(Top.f)
    /\ stack' = Finish(Return(None))
    /\ UNCHANGED <<fn, args, ret, pc, method, inner, heap, objs, ncalls>>

\* T_dew_est = 1.1*T_bub_est with what get_T_bub_est came back with.
BubReturns ==
    /\ RunningEst /\ Top.at = "done" /\ Len(stack) = 2
    /\ stack' = <<IF Raised(Top.res) THEN [stack[1] EXCEPT !.at = "done", !.res = Top.res]
                  ELSE IF Top.res.val = None
                  THEN [stack[1] EXCEPT !.at = "done", !.res = Propagate(TypeErr)]
                  ELSE [stack[1] EXCEPT !.at = "loop"]>>
    /\ UNCHANGED <<fn, args, ret, pc, method, inner, heap, objs, ncalls>>

\* The outermost call returns or raises; its frame is kept.
ReturnEst ==
    /\ RunningEst /\ Top.at = "done" /\ Len(stack) = 1
    /\ ret' = Top.res
    /\ pc' = "done"
    /\ UNCHANGED <<fn, args, method, inner, stack, heap, objs, ncalls>>

NextEst == CallEst \/ Iterate \/ Exhausted \/ BubReturns \/ ReturnEst

SpecEst == InitEst /\ [][NextEst]_vars

(***************************************************************************)
(* Claims about get_T_bub_est and get_T_dew_est                            *)
(***************************************************************************)
\* C17: a call of get_T_bub_est or get_T_dew_est whose loop has used up its
\* 1000 or 10000 passes ends with an error, and no call returns None.
C17_BudgetExhaustionIsAnError ==
    \A k \in 1..Len(stack) :
        (fn \in EstNames /\ stack[k].at = "done") =>
            /\ stack[k].res # Return(None)
            /\ stack[k].i = Budget(stack[k].f) => Raised(stack[k].res)

\* An estimate of the call k in progress is waiting to be evaluated.
C28_Proposed(k) ==
    /\ fn \in EstNames /\ k \in 1..Len(stack)
    /\ stack[k].at = "loop" /\ stack[k].i > 0

\* Both a residual sum below 1 and one above 1 have been seen in call k.
C28_BothSeen(k) == {"below", "above"} \subseteq stack[k].seen

\* In every call: an estimate proposed by a pass is the interpolation exactly
\* when the passes so far, that pass included, have seen both a sum below 1
\* and a sum above 1; otherwise it is the estimate of the pass times 1.1 or
\* divided by 1.1, as the sum of the pass (below or above 1) decides for the
\* function.
C28_Proposal ==
    \A k \in 1..Len(stack) :
        /\ C28_Proposed(k) =>
              /\ stack[k].how = "secant" <=> C28_BothSeen(k)
              /\ ~C28_BothSeen(k) =>
                    /\ stack[k].last \in {"below", "above"}
                    /\ stack[k].how =
                          IF stack[k].f = "get_T_bub_est"
                          THEN (IF stack[k].last = "below" THEN "*1.1" ELSE "/1.1")
                          ELSE (IF stack[k].last = "below" THEN "/1.1" ELSE "*1.1")

\* A call that has proposed an interpolation proposes an interpolation in
\* every later pass that proposes an estimate; and the pass that converges
\* returns the estimate it evaluated, not the one it proposes.
C28_Pass ==
    \A k \in 1..Len(stack) :
        (fn \in EstNames /\ stack[k].at = "loop" /\ k <= Len(stack')) =>
            /\ (stack[k].how = "secant" /\ stack'[k].i = stack[k].i + 1) =>
                  stack'[k].how = "secant"
            /\ (stack'[k].at = "done" /\ stack'[k].res.tag = "return"
                    /\ stack'[k].res.val # None) =>
                  /\ stack'[k].i = stack[k].i
                  /\ stack'[k].res.val = Estimate(stack[k].i, stack[k].how)

\* C28: in every pass of get_T_bub_est and get_T_dew_est the next estimate
\* is the secant interpolation between the stored low and high points if and
\* only if both a below-1 and an above-1 residual sum have been seen so far,
\* that pass included, and otherwise the estimate times or divided by 1.1 by
\* the sign of the residual; once the interpolation is used it is used in
\* every later pass; and the value returned on convergence is the estimate
\* whose residual was evaluated last, not the next one proposed.
C28_SecantOnceBracketed == []C28_Proposal /\ [][C28_Pass]_vars

\* get_T_dew_est, third pass done: *1.1 after a sum above 1, then the
\* interpolation after a sum below 1, and the interpolation again.
C28_Witness ==
    /\ fn = "get_T_dew_est" /\ pc = "run" /\ Len(stack) = 1
    /\ stack[1].at = "loop" /\ stack[1].i = 3
    /\ stack[1].how = "secant"
    /\ stack[1].T_HI = "earlier" /\ stack[1].T_LO = "last"

(***************************************************************************)
(* The NRTL class (thermo/nrtl.py)                                         *)
(*                                                                         *)
(* Lists are objects of the heap: a matrix is a list of the addresses of   *)
(* its rows, a row a list of numbers.  An instance holds the addresses of  *)
(* its eight coefficient matrices and of zero_coeffs, and its attributes   *)
(* _xj_Gs_jis ... _d2GE_dTdxs and _lambdas, Unset until assigned.  The     *)
(* lists a method builds are allocated after the objects alive and are     *)
(* dropped when the call returns; the result is kept by value.  log and    *)
(* exp are not computed: LogT stands for log(T), and exp(e) times k is     *)
(* the pair [k, e].  The results of GE and the like are tokens naming the  *)
(* method and the T and xs they were computed from.                        *)
(***************************************************************************)
NRTL_N == 2

\* The list of the items f[1], ..., f[n].
List(f) == f \o <<>>

MaxCalls == 2

CoeffNames ==
    <<"tau_coeffs_A", "tau_coeffs_B", "tau_coeffs_E", "tau_coeffs_F",
      "tau_coeffs_G", "tau_coeffs_H", "alpha_coeffs_c", "alpha_coeffs_d">>

\* The eight matrices handed to the constructor as ABEFGHCD.
ABEFGHCD(m) ==
    List([i \in 1..NRTL_N |->
            List([j \in 1..NRTL_N |-> Rat((m + i + 2 * j) % 3, 1 + (m % 2))])])

\* [[0.0]*N for _ in range(N)]
ZeroMatrix == List([i \in 1..NRTL_N |-> List([j \in 1..NRTL_N |-> Zero])])

\* A new matrix in the heap h: its rows, then the list of their addresses,
\* which is the last object of the new heap.
AllocMatrix(h, M) == h \o M \o <<List([i \in 1..Len(M) |-> Len(h) + i])>>

\* The address of the m-th matrix allocated by the constructor.
AddrOf(m) == m * (NRTL_N + 1)

RECURSIVE HeapWith(_)
HeapWith(m) ==
    IF m = 0 THEN <<>>
    ELSE AllocMatrix(HeapWith(m - 1), IF m = 9 THEN ZeroMatrix ELSE ABEFGHCD(m))

\* The matrix at address a, by value.
Deref(h, a) == List([i \in 1..Len(h[a]) |-> h[h[a][i]]])

\* M[i][j] for the matrix at address a
At(h, a, i, j) == h[h[a][i]][j]

Unset == [unset |-> TRUE]

\* The instance after __init__(T, xs, ABEFGHCD=...).
NewInstance(T, xs) ==
    [T |-> T, xs |-> xs, N |-> NRTL_N,
     tau_coeffs_A |-> AddrOf(1), tau_coeffs_B |-> AddrOf(2),
     tau_coeffs_E |-> AddrOf(3), tau_coeffs_F |-> AddrOf(4),
     tau_coeffs_G |-> AddrOf(5), tau_coeffs_H |-> AddrOf(6),
     alpha_coeffs_c |-> AddrOf(7), alpha_coeffs_d |-> AddrOf(8),
     zero_coeffs |-> AddrOf(9),
     lambdas |-> Unset, xj_Gs_jis |-> Unset, xj_Gs_taus_jis |-> Unset,
     xj_dGs_dT_jis |-> Unset, xj_taus_dGs_dT_jis |-> Unset,
     xj_Gs_dtaus_dT_jis |-> Unset, d2GE_dTdxs |-> Unset]

CacheNames ==
    {"xj_Gs_jis", "xj_Gs_taus_jis", "xj_dGs_dT_jis", "xj_taus_dGs_dT_jis",
     "xj_Gs_dtaus_dT_jis", "d2GE_dTdxs"}

\* Faulty variant: the clone keeps the temperature of its source.
to_T_xs_same_T(self, T, xs) ==
    [NewInstance(self.T, xs) EXCEPT
        !.lambdas = IF T = self.T THEN self.lambdas ELSE Unset]

\* to_T_xs: a new instance with the N, cmps, zero_coeffs and coefficient
\* matrices of self (NewInstance gives every instance the same ones), and
\* with _lambdas of self when T == self.T and self has it.
to_T_xs(self, T, xs) ==
    [NewInstance(T, xs) EXCEPT
        !.lambdas = IF T = self.T THEN self.lambdas ELSE Unset]

\* A rational standing for log(T): 0 at T = 1.
LogT(T) == RMul(Rat(7, 10), RSub(T, One))

RNeg(a) == RSub(Zero, a)

\* [list(l) for l in M] for the matrix at address a.
CopyRows(h, a) == AllocMatrix(h, Deref(h, a))

\* row[j] += f(i, j) for every row i of the matrix at address a.
AddInPlace(h, a, f(_, _)) ==
    List([b \in 1..Len(h) |->
            IF \E i \in 1..Len(h[a]) : h[a][i] = b
            THEN LET i == CHOOSE k \in 1..Len(h[a]) : h[a][k] = b
                 IN  List([j \in 1..Len(h[b]) |-> RAdd(h[b][j], f(i, j))])
            ELSE h[b]])

\* Faulty variant: taus = tau_coeffs_A, without the copy of the rows.
taus_in_place(h, self) ==
    LET T == self.T
        Tinv == RDiv(One, T)
    IN  [heap |-> AddInPlace(h, self.tau_coeffs_A,
                     LAMBDA i, j :
                        RAdd(RAdd(RAdd(RAdd(
                            RMul(At(h, self.tau_coeffs_B, i, j), Tinv),
                            RMul(At(h, self.tau_coeffs_E, i, j), LogT(T))),
                            RMul(At(h, self.tau_coeffs_F, i, j), T)),
                            RMul(At(h, self.tau_coeffs_G, i, j), RMul(Tinv, Tinv))),
                            RMul(At(h, self.tau_coeffs_H, i, j), RMul(T, T)))),
         at |-> self.tau_coeffs_A]

\* taus: A copied row by row, then B/T + E log T + F T + G/T^2 + H T^2
\* added to the copy in place.
taus(h, self) ==
    LET T == self.T
        Tinv == RDiv(One, T)
        h1 == CopyRows(h, self.tau_coeffs_A)
    IN  [heap |-> AddInPlace(h1, Len(h1),
                     LAMBDA i, j :
                        RAdd(RAdd(RAdd(RAdd(
                            RMul(At(h1, self.tau_coeffs_B, i, j), Tinv),
                            RMul(At(h1, self.tau_coeffs_E, i, j), LogT(T))),
                            RMul(At(h1, self.tau_coeffs_F, i, j), T)),
                            RMul(At(h1, self.tau_coeffs_G, i, j), RMul(Tinv, Tinv))),
                            RMul(At(h1, self.tau_coeffs_H, i, j), RMul(T, T)))),
         at |-> Len(h1)]

\* dtaus_dT: F copied row by row, then -B/T^2 + E/T - 2G/T^3 + 2T H added.
dtaus_dT(h, self) ==
    LET T == self.T
        Tinv == RDiv(One, T)
        nT2inv == RNeg(RMul(Tinv, Tinv))
        n2T3inv == RMul(RMul(Int2Rat(2), nT2inv), Tinv)
        h1 == CopyRows(h, self.tau_coeffs_F)
    IN  [heap |-> AddInPlace(h1, Len(h1),
                     LAMBDA i, j :
                        RAdd(RAdd(RAdd(
                            RMul(nT2inv, At(h1, self.tau_coeffs_B, i, j)),
                            RMul(Tinv, At(h1, self.tau_coeffs_E, i, j))),
                            RMul(n2T3inv, At(h1, self.tau_coeffs_G, i, j))),
                            RMul(RAdd(T, T), At(h1, self.tau_coeffs_H, i, j)))),
         at |-> Len(h1)]

\* d2taus_dT2: a new matrix of h + h, then 2B/T^3 - E/T^2 + 6G/T^4 added.
d2taus_dT2(h, self) ==
    LET T == self.T
        Tinv == RDiv(One, T)
        Tinv2 == RMul(Tinv, Tinv)
        H == Deref(h, self.tau_coeffs_H)
        h1 == AllocMatrix(h, List([i \in 1..Len(H) |->
                                List([j \in 1..Len(H[i]) |-> RAdd(H[i][j], H[i][j])])]))
    IN  [heap |-> AddInPlace(h1, Len(h1),
                     LAMBDA i, j :
                        RAdd(RAdd(
                            RMul(RMul(Int2Rat(2), RMul(Tinv2, Tinv)),
                                 At(h1, self.tau_coeffs_B, i, j)),
                            RMul(RNeg(Tinv2), At(h1, self.tau_coeffs_E, i, j))),
                            RMul(RMul(Int2Rat(6), RMul(Tinv2, Tinv2)),
                                 At(h1, self.tau_coeffs_G, i, j)))),
         at |-> Len(h1)]

\* d3taus_dT3: a new matrix of zeros, each entry then assigned
\* -6B/T^4 + 2E/T^3 - 24G/T^5.
d3taus_dT3(h, self) ==
    LET T == self.T
        Tinv == RDiv(One, T)
        T2inv == RMul(Tinv, Tinv)
        h1 == AllocMatrix(h, ZeroMatrix)
    IN  [heap |-> AddInPlace(h1, Len(h1),
                     LAMBDA i, j :
                        RAdd(RAdd(
                            RMul(RMul(Int2Rat(0 - 6), RMul(T2inv, T2inv)),
                                 At(h1, self.tau_coeffs_B, i, j)),
                            RMul(RMul(Int2Rat(2), RMul(T2inv, Tinv)),
                                 At(h1, self.tau_coeffs_E, i, j))),
                            RMul(RMul(Int2Rat(0 - 24), RMul(RMul(T2inv, T2inv), Tinv)),
                                 At(h1, self.tau_coeffs_G, i, j)))),
         at |-> Len(h1)]

\* alphas: a new matrix of c + d*T.
alphas(h, self) ==
    LET h1 == AllocMatrix(h,
                 List([i \in 1..self.N |-> List([j \in 1..self.N |->
                     RAdd(At(h, self.alpha_coeffs_c, i, j),
                          RMul(At(h, self.alpha_coeffs_d, i, j), self.T))])]))
    IN  [heap |-> h1, at |-> Len(h1)]

\* The methods that return a matrix of numbers; dalphas_dT returns
\* alpha_coeffs_d itself and d2alphas_dT2, d3alphas_dT3 zero_coeffs itself.
MatrixMethods ==
    {"taus", "dtaus_dT", "d2taus_dT2", "d3taus_dT3", "alphas", "dalphas_dT",
     "d2alphas_dT2", "d3alphas_dT3"}

MatrixMethod(op, h, self) ==
    CASE op = "taus" -> taus(h, self)
      [] op = "dtaus_dT" -> dtaus_dT(h, self)
      [] op = "d2taus_dT2" -> d2taus_dT2(h, self)
      [] op = "d3taus_dT3" -> d3taus_dT3(h, self)
      [] op = "alphas" -> alphas(h, self)
      [] op = "dalphas_dT" -> [heap |-> h, at |-> self.alpha_coeffs_d]
      [] OTHER -> [heap |-> h, at |-> self.zero_coeffs]

\* The five weighted sums, sum1 to sum5.
SumMethods ==
    {"xj_Gs_jis", "xj_Gs_taus_jis", "xj_dGs_dT_jis", "xj_taus_dGs_dT_jis",
     "xj_Gs_dtaus_dT_jis"}

\* The methods whose result is a token.
TokenMethods ==
    {"d2Gs_dT2", "d3Gs_dT3", "GE", "dGE_dxs", "d2GE_dxixjs", "d2GE_dTdxs",
     "dGE_dT", "d2GE_dT2"}

NRTLMethods ==
    MatrixMethods \cup {"Gs", "dGs_dT", "gammas"} \cup SumMethods \cup TokenMethods

\* The methods of self a method calls, in the order of the calls.
Calls(op) ==
    CASE op = "Gs" -> <<"alphas", "taus">>
      [] op = "dGs_dT" -> <<"alphas", "dalphas_dT", "taus", "dtaus_dT", "Gs">>
      [] op = "d2Gs_dT2" ->
            <<"alphas", "dalphas_dT", "taus", "dtaus_dT", "d2taus_dT2", "Gs">>
      [] op = "d3Gs_dT3" ->
            <<"alphas", "dalphas_dT", "taus", "dtaus_dT", "d2taus_dT2",
              "d3taus_dT3", "Gs">>
      [] op = "GE" -> <<"taus", "Gs">>
      [] op = "gammas" -> <<"alphas", "taus">>
      [] op = "dGE_dxs" -> <<"taus", "alphas", "Gs">>
      [] op = "d2GE_dxixjs" ->
            <<"taus", "alphas", "Gs", "xj_Gs_jis", "xj_Gs_taus_jis">>
      [] op = "d2GE_dTdxs" ->
            <<"xj_Gs_jis", "xj_Gs_taus_jis", "xj_dGs_dT_jis",
              "xj_taus_dGs_dT_jis", "xj_Gs_dtaus_dT_jis", "taus", "dtaus_dT",
              "Gs", "dGs_dT">>
      [] op = "dGE_dT" ->
            <<"taus", "dtaus_dT", "alphas", "dalphas_dT", "Gs", "dGs_dT">>
      [] op = "d2GE_dT2" ->
            <<"taus", "dtaus_dT", "d2taus_dT2", "alphas", "dalphas_dT", "Gs",
              "dGs_dT", "d2Gs_dT2">>
      [] op = "xj_Gs_jis" -> <<"Gs">>
      [] op = "xj_Gs_taus_jis" -> <<"Gs", "taus">>
      [] op = "xj_dGs_dT_jis" -> <<"dGs_dT">>
      [] op = "xj_taus_dGs_dT_jis" -> <<"dGs_dT", "taus">>
      [] op = "xj_Gs_dtaus_dT_jis" -> <<"dtaus_dT", "Gs">>
      [] OTHER -> <<>>

\* The outcome of a method: the heap and the instance after it, and the
\* value returned (ok) or the exception raised.
Outcome(h, self, ok, val) == [heap |-> h, self |-> self, ok |-> ok, val |-> val]

\* k*exp(e) multiplied by the number c.
Times(c, g) == [k |-> RMul(c, g.k), e |-> g.e]

\* Gs[i][j] = exp(-alphas[i][j]*taus[i][j])
GsValue(al, ta) ==
    List([i \in 1..Len(al) |-> List([j \in 1..Len(al) |->
        [k |-> One, e |-> RNeg(RMul(al[i][j], ta[i][j]))]])])

\* dGs_dT[i][j] = (-alphas*dtaus_dT - taus*dalphas_dT)*Gs
dGsValue(al, dal, ta, dta, G) ==
    List([i \in 1..Len(al) |-> List([j \in 1..Len(al) |->
        Times(RSub(RNeg(RMul(al[i][j], dta[i][j])), RMul(ta[i][j], dal[i][j])),
              G[i][j])])])

\* Entry i of a weighted sum: the terms xs[j]*w[j][i]*G[j][i] it adds up.
SumEntry(xs, w, G, i) ==
    List([j \in 1..Len(G) |-> Times(RMul(xs[j], w[j][i]), G[j][i])])

Ones(n) == List([i \in 1..n |-> List([j \in 1..n |-> One])])

(***************************************************************************)
(* The NRTL function of thermo/activity.py                                 *)
(*                                                                         *)
(* The function is evaluated on numbers: of math.exp the model keeps that  *)
(* exp(0) = 1 and that exp is positive and increasing; elsewhere its       *)
(* values are stand-ins.  A division by zero raises ZeroDivisionError.     *)
(***************************************************************************)
exp(r) == IF RLe(Zero, r) THEN RAdd(One, r) ELSE RDiv(One, RSub(One, r))

\* exp of the value of an expression, or the exception it raised.
PyExp(v) == IF IsExc(v) THEN v ELSE exp(v)

\* Gs = [[exp(-alphas[i][j]*taus[i][j]) for j in cmps] for i in cmps]
NRTL_Gs(n, ta, al) ==
    List([i \in 1..n |-> List([j \in 1..n |->
        exp(RNeg(RMul(al[i][j], ta[i][j])))])])

\* sum([xs[k]*w[k][j]*Gs[k][j] for k in cmps])
NRTL_sum(xs, w, Gs, j) ==
    PySum(List([k \in 1..Len(xs) |-> RMul(RMul(xs[k], w[k][j]), Gs[k][j])]))

\* The tau factor left out of tn1.
NRTL_gamma_tn1_without_tau(xs, ta, Gs, i) ==
    LET n == Len(xs)
        td(j) == NRTL_sum(xs, Ones(n), Gs, j)
        term(j) == PyMul(PyDiv(RMul(xs[j], Gs[i][j]), td(j)),
                         PyAdd(ta[i][j],
                               PyMul(Int2Rat(-1),
                                     PyDiv(NRTL_sum(xs, ta, Gs, j), td(j)))))
    IN  PyExp(PyAdd(PyDiv(td(i), td(i)),
                    SumOf(List([j \in 1..n |-> term(j)]))))

\* gamma of species i: exp(tn1/td1 + total2), where total2 adds up
\* tn2/td2*(tausi[j] - tn3/td3) over j.
NRTL_gamma(xs, ta, Gs, i) ==
    LET n == Len(xs)
        td(j) == NRTL_sum(xs, Ones(n), Gs, j)
        term(j) == PyMul(PyDiv(RMul(xs[j], Gs[i][j]), td(j)),
                         PyAdd(ta[i][j],
                               PyMul(Int2Rat(-1),
                                     PyDiv(NRTL_sum(xs, ta, Gs, j), td(j)))))
    IN  PyExp(PyAdd(PyDiv(NRTL_sum(xs, ta, Gs, i), td(i)),
                    SumOf(List([j \in 1..n |-> term(j)]))))

\* NRTL(xs, taus, alphas): the outcome of the call.
NRTL(xs, ta, al) ==
    CHOOSE out \in
        {IF HasExc(gammas) THEN Propagate(FirstExc(gammas)) ELSE Return(gammas) :
            gammas \in {List([i \in 1..Len(xs) |->
                NRTL_gamma(xs, ta, NRTL_Gs(Len(xs), ta, al), i)])}} : TRUE

GammaNums == {Int2Rat(-1), Zero, Rat(1, 2), One}

\* Compositions of 1 to NRTL_N species.
GammaXs ==
    UNION {{List(f) : f \in [1..n -> GammaNums]} : n \in 1..NRTL_N}

TauVals == {Zero, One, Rat(-1, 2)}

\* taus: d on the diagonal, o above it and u below it.
GammaTaus ==
    {List([i \in 1..NRTL_N |-> List([j \in 1..NRTL_N |->
        IF i = j THEN d ELSE IF i < j THEN o ELSE u])]) :
            d \in TauVals, o \in TauVals, u \in TauVals}

AlphaVals == {Zero, Rat(3, 10), Int2Rat(-1)}

\* alphas: a off the diagonal and 0 on it.
GammaAlphas ==
    {List([i \in 1..NRTL_N |-> List([j \in 1..NRTL_N |->
        IF i = j THEN Zero ELSE a])]) : a \in AlphaVals}

InitGamma ==
    /\ fn = "NRTL"
    /\ args \in [xs : GammaXs, taus : GammaTaus, alphas : GammaAlphas]
    /\ ret = NoResult
    /\ pc = "call"
    /\ method = NotCalled
    /\ inner = NoResult
    /\ stack = <<>>
    /\ heap = <<>>
    /\ objs = <<>>
    /\ ncalls = 0

CallNRTL ==
    /\ pc = "call" /\ fn = "NRTL"
    /\ ret' = NRTL(args.xs, args.taus, args.alphas)
    /\ pc' = "done"
    /\ UNCHANGED <<fn, args, method, inner, stack, heap, objs, ncalls>>

NextGamma == CallNRTL

SpecGamma == InitGamma /\ [][NextGamma]_vars

\* Every entry of the matrix m is 0.
AllZero(m) == \A i \in 1..Len(m) : \A j \in 1..Len(m[i]) : m[i][j] = Zero

\* C22: a call of the NRTL function with taus all 0 and xs whose entries do
\* not add up to 0 returns a list with one gamma per species, each exactly
\* 1, whatever alphas is.
C22_ZeroTausGiveUnitGammas ==
    (fn = "NRTL" /\ pc = "done" /\ AllZero(args.taus) /\ PySum(args.xs) # Zero) =>
        /\ ret.tag = "return"
        /\ Len(ret.val) = Len(args.xs)
        /\ \A i \in 1..Len(ret.val) : ret.val[i] = One

\* Zero taus, non-zero alphas and a composition with a negative entry.
C22_Witness ==
    /\ fn = "NRTL" /\ pc = "done" /\ AllZero(args.taus)
    /\ args.alphas[1][2] # Zero
    /\ Len(args.xs) = NRTL_N /\ args.xs[1] = Int2Rat(-1) /\ PySum(args.xs) # Zero
    /\ ret.tag = "return" /\ ret.val[1] = One

\* The result of GE and the like.
Token(op, self) == [of |-> op, T |-> self.T, xs |-> self.xs]

RECURSIVE Exec(_, _, _)
\* The methods in ops called one after the other, for what they do to the
\* heap and to self (the values they return are computed apart, by
\* Matrices); the first exception ends it.
RECURSIVE ExecAll(_, _, _)
ExecAll(ops, h, self) ==
    IF ops = <<>> THEN Outcome(h, self, TRUE, <<>>)
    ELSE CHOOSE out \in
            {IF r.ok THEN ExecAll(Tail(ops), r.heap, r.self) ELSE r :
                r \in {IF Head(ops) \in MatrixMethods \cup SumMethods
                       THEN Exec(Head(ops), h, self)
                       ELSE ExecAll(Calls(Head(ops)), h, self)}} : TRUE

\* The value of the matrix method op of self (by value).
ValueOf(op, h, self) ==
    CHOOSE out \in {Deref(r.heap, r.at) : r \in {MatrixMethod(op, h, self)}} : TRUE

\* alphas, dalphas_dT, taus and dtaus_dT of self, by value.
Matrices(h, self) ==
    [al |-> ValueOf("alphas", h, self), dal |-> ValueOf("dalphas_dT", h, self),
     ta |-> ValueOf("taus", h, self), dta |-> ValueOf("dtaus_dT", h, self)]

\* The list a weighted sum computes from the matrices v.
SumList(op, self, v) ==
    LET G == GsValue(v.al, v.ta)
        dG == dGsValue(v.al, v.dal, v.ta, v.dta, G)
    IN  List([i \in 1..self.N |->
            CASE op = "xj_Gs_jis" -> SumEntry(self.xs, Ones(self.N), G, i)
              [] op = "xj_Gs_taus_jis" -> SumEntry(self.xs, v.ta, G, i)
              [] op = "xj_dGs_dT_jis" -> SumEntry(self.xs, Ones(self.N), dG, i)
              [] op = "xj_taus_dGs_dT_jis" -> SumEntry(self.xs, v.ta, dG, i)
              [] OTHER -> SumEntry(self.xs, v.dta, G, i)])

\* A weighted sum already stored is returned; otherwise the attribute is
\* assigned an empty list, which is then filled entry by entry: xs[j] fails
\* in the first entry when xs is shorter than N.
WeightedSum(op, h, self) ==
    IF self[op] # Unset THEN Outcome(h, self, TRUE, self[op].list)
    ELSE CHOOSE out \in
            {IF Len(self.xs) < self.N
             THEN Outcome(r.heap, [r.self EXCEPT ![op] = SomeList(<<>>)], FALSE, IndexErr)
             ELSE Outcome(r.heap, [r.self EXCEPT ![op] = SomeList(sum)], TRUE, sum) :
                r \in {ExecAll(Calls(op), h, self)},
                sum \in {IF Len(self.xs) < self.N THEN <<>>
                         ELSE SumList(op, self, Matrices(h, self))}} : TRUE

\* What the NRTL function returns for xs, ta and al, left unevaluated: the
\* function is pure, so that two of these are the same value when their
\* arguments are the same.
NRTLValue(xs, ta, al) == [of |-> "NRTL", xs |-> xs, taus |-> ta, alphas |-> al]

\* NRTL_gammas of thermo.activity, which nrtl.py imports: the NRTL function.
NRTL_gammas(xs, ta, al) == NRTLValue(xs, ta, al)

\* gammas handed the coefficients A in place of taus().
gammas_of_tau_coeffs_A(h, self, v) ==
    NRTL_gammas(self.xs, Deref(h, self.tau_coeffs_A), v.al)

\* gammas, its calls of alphas and taus made: the outcome of
\* NRTL_gammas(xs=self.xs, taus=taus, alphas=alphas).
gammas(h, self, v) == NRTL_gammas(self.xs, v.ta, v.al)

\* The value Gs, dGs_dT, gammas and the methods that return a token come to
\* once their calls r have been made.
Result(op, self, r, v) ==
    IF ~r.ok THEN r
    ELSE IF op = "gammas"
    THEN Outcome(r.heap, r.self, TRUE, gammas(r.heap, self, v))
    ELSE IF op = "Gs" THEN Outcome(r.heap, r.self, TRUE, GsValue(v.al, v.ta))
    ELSE IF op = "dGs_dT"
    THEN Outcome(r.heap, r.self, TRUE,
                 dGsValue(v.al, v.dal, v.ta, v.dta, GsValue(v.al, v.ta)))
    ELSE IF op \in {"d2Gs_dT2", "d3Gs_dT3"}
    THEN Outcome(r.heap, r.self, TRUE, Token(op, self))
    ELSE IF Len(self.xs) < self.N
    THEN Outcome(r.heap, r.self, FALSE, IndexErr)
    ELSE IF op = "d2GE_dTdxs"
    THEN Outcome(r.heap, [r.self EXCEPT !.d2GE_dTdxs = SomeList(Token(op, self))],
                 TRUE, Token(op, self))
    ELSE Outcome(r.heap, r.self, TRUE, Token(op, self))

Exec(op, h, self) ==
    IF op \in MatrixMethods
    THEN CHOOSE out \in {Outcome(r.heap, self, TRUE, Deref(r.heap, r.at)) :
                            r \in {MatrixMethod(op, h, self)}} : TRUE
    ELSE IF op \in SumMethods THEN WeightedSum(op, h, self)
    ELSE CHOOSE out \in {Result(op, self, r, v) :
                            r \in {ExecAll(Calls(op), h, self)},
                            v \in {IF op \in {"Gs", "dGs_dT", "gammas"}
                                   THEN Matrices(h, self) ELSE <<>>}} : TRUE

NRTLTVals == {One, Int2Rat(2)}

\* Compositions: two of N species, and one of a single species.
NRTLXsVals ==
    {List([i \in 1..NRTL_N |-> Rat(1, NRTL_N)]),
     List([i \in 1..NRTL_N |-> IF i = 1 THEN One ELSE Zero]),
     <<One>>}

InitNRTL ==
    /\ fn = "__init__"
    /\ args \in [T : {One}, xs : {List([i \in 1..NRTL_N |-> Rat(1, NRTL_N)])}]
    /\ ret = NoResult
    /\ pc = "done"
    /\ method = NotCalled
    /\ inner = NoResult
    /\ stack = <<>>
    /\ heap = HeapWith(9)
    /\ objs = <<NewInstance(args.T, args.xs)>>
    /\ ncalls = 0

\* A method other than to_T_xs is called on the instance objs[s].
Query ==
    /\ fn \in NRTLMethods \cup {"__init__", "to_T_xs"} /\ ncalls < MaxCalls
    /\ \E s \in 1..Len(objs), op \in NRTLMethods :
          \E r \in {Exec(op, heap, objs[s])} :
              /\ fn' = op
              /\ args' = [self |-> s]
              /\ heap' = SubSeq(r.heap, 1, Len(heap))
              /\ objs' = [objs EXCEPT ![s] = r.self]
              /\ ret' = IF r.ok THEN Return(r.val) ELSE Propagate(r.val)
    /\ ncalls' = ncalls + 1
    /\ UNCHANGED <<pc, method, inner, stack>>

\* to_T_xs is called on the instance objs[s]; the result is objs[ret.val].
Clone ==
    /\ fn \in NRTLMethods \cup {"__init__", "to_T_xs"} /\ ncalls < MaxCalls
    /\ \E s \in 1..Len(objs), T \in NRTLTVals, xs \in NRTLXsVals :
          /\ fn' = "to_T_xs"
          /\ args' = [self |-> s, T |-> T, xs |-> xs]
          /\ objs' = Append(objs, to_T_xs(objs[s], T, xs))
          /\ ret' = Return(Len(objs) + 1)
    /\ ncalls' = ncalls + 1
    /\ UNCHANGED <<pc, method, inner, stack, heap>>

NextNRTL == Query \/ Clone

SpecNRTL == InitNRTL /\ [][NextNRTL]_vars

(***************************************************************************)
(* Claims about the NRTL class                                             *)
(***************************************************************************)
NRTLCalled == fn \in NRTLMethods \cup {"__init__", "to_T_xs"}

\* C18: a call of to_T_xs returns a new instance, distinct from every
\* instance alive, whose N and eight coefficient matrices are the objects of
\* the source and whose T and xs are the arguments; and it leaves the T, the
\* xs, the coefficient matrices and the stored sums of the source as they
\* were.
C18_CloneSharesCoefficients ==
    [][(fn' = "to_T_xs" /\ ncalls' = ncalls + 1) =>
          /\ ret'.val = Len(objs) + 1
          /\ ret'.val # args'.self
          /\ objs'[ret'.val].N = objs[args'.self].N
          /\ \A k \in 1..Len(CoeffNames) :
                /\ objs'[ret'.val][CoeffNames[k]] = objs[args'.self][CoeffNames[k]]
                /\ Deref(heap', objs[args'.self][CoeffNames[k]])
                      = Deref(heap, objs[args'.self][CoeffNames[k]])
          /\ objs'[ret'.val].T = args'.T
          /\ objs'[ret'.val].xs = args'.xs
          /\ objs'[args'.self] = objs[args'.self]]_vars

\* A clone at another temperature of a source that has stored its first sum.
C18_Witness ==
    /\ fn = "to_T_xs"
    /\ objs[args.self].xj_Gs_jis # Unset
    /\ args.T # objs[args.self].T
    /\ objs[ret.val].T = args.T
    /\ objs[ret.val].tau_coeffs_A = objs[args.self].tau_coeffs_A

\* C19: after to_T_xs with the T of the source, on a source that has stored
\* its weighted sum, the new instance has that stored sum; after to_T_xs with
\* another T the new instance has nothing stored.
C19_CloneCarriesCache ==
    (fn = "to_T_xs") =>
        /\ (args.T = objs[args.self].T /\ objs[args.self].xj_Gs_jis # Unset) =>
              objs[ret.val].xj_Gs_jis = objs[args.self].xj_Gs_jis
        /\ (args.T # objs[args.self].T) =>
              \A c \in CacheNames : objs[ret.val][c] = Unset

\* C20: whatever methods have been called, on the first instance or on its
\* clones, every instance still holds the eight matrices it was constructed
\* with and every entry of them is what it was.
C20_CoefficientsNeverChange ==
    NRTLCalled =>
        \A k \in 1..Len(CoeffNames) :
            /\ Deref(heap, AddrOf(k)) = ABEFGHCD(k)
            /\ \A s \in 1..Len(objs) : objs[s][CoeffNames[k]] = AddrOf(k)

\* taus was called on a clone and returned a matrix other than A.
C20_Witness ==
    /\ fn = "taus" /\ args.self = 2
    /\ ret.tag = "return"
    /\ ret.val # Deref(heap, objs[2].tau_coeffs_A)

C29_Stored(s, c) == objs[s][c] # Unset

\* What a weighted sum stored by objs[s] has to be: the list computed from
\* the T and the xs of objs[s].
C29_Fresh(s, c) ==
    /\ Len(objs[s].xs) >= objs[s].N
    /\ objs[s][c].list = SumList(c, objs[s], Matrices(heap, objs[s]))

C29_StoredIsFresh ==
    NRTLCalled =>
        \A s \in 1..Len(objs) : \A c \in SumMethods :
            C29_Stored(s, c) => C29_Fresh(s, c)

\* A call of a weighted sum that is stored returns the stored list and
\* leaves every instance and the matrices as they are; to_T_xs with another
\* composition gives an instance with no weighted sum stored.
C29_Call ==
    /\ (ncalls' = ncalls + 1 /\ fn' \in SumMethods
            /\ C29_Stored(args'.self, fn')) =>
          /\ ret' = Return(objs[args'.self][fn'].list)
          /\ objs' = objs
          /\ heap' = heap
    /\ (ncalls' = ncalls + 1 /\ fn' = "to_T_xs"
            /\ args'.xs # objs[args'.self].xs) =>
          \A c \in SumMethods : objs'[ret'.val][c] = Unset

\* C29: when T and xs are never assigned in place, each of the five weighted
\* sums is computed at most once per instance: a later call returns the
\* stored list without computing anything; every stored sum is the list
\* computed from the T and the xs of its own instance; and an instance made
\* by to_T_xs for another composition has none of the sums of its source.
C29_SumsComputedOnceAndFresh == []C29_StoredIsFresh /\ [][C29_Call]_vars

\* C30: after a call of a weighted sum that failed, the instance has no
\* stored list for that sum, so that the same call fails again.
C30_FailedSumLeavesNoCache ==
    (fn \in SumMethods /\ Raised(ret)) => objs[args.self][fn] = Unset

====
